---- MODULE Spec2Model ----
(***************************************************************************)
(* Storage core of bustubx: the buffer pool manager (buffer_pool.rs), the  *)
(* table heap (table_heap.rs) and the B+-tree index (index.rs).            *)
(*                                                                         *)
(* The buffer pool is modelled as a record                                 *)
(*   [pool, page_table, free_list, replacer, disk_manager]                 *)
(* that the operations transform; the table heap and the index run on top  *)
(* of these operations, as in the source.  Page, PageRef, LRUKReplacer,    *)
(* DiskManager, TablePage and the B+-tree page types live outside the      *)
(* three source files; they are modelled from the specification text.      *)
(***************************************************************************)
EXTENDS Integers, Sequences, FiniteSets, Bags, TLC

VARIABLES
    pool,           \* BufferPoolManager.pool: frame id -> Page
    page_table,     \* BufferPoolManager.page_table: page id -> frame id
    free_list,      \* BufferPoolManager.free_list: queue of frame ids
    replacer,       \* BufferPoolManager.replacer (LRU-K)
    disk_manager,   \* BufferPoolManager.disk_manager
    handles,        \* live PageRef handles held by callers (a bag)
    read_failures,  \* DiskManager::read_page calls that returned an error
    last_op,        \* the last call made on the buffer pool and its result
    threads,        \* where each concurrent caller is inside its call
    first_page_id,  \* TableHeap.first_page_id
    last_page_id,   \* TableHeap.last_page_id
    inserted,       \* the insert_tuple calls that returned Ok: <<rid, meta, tuple>>
    iter,           \* the TableIterator the caller holds
    iter_result,    \* what the last TableIterator::next returned
    root_page_id,   \* BPlusTreeIndex.root_page_id
    leaf_max_size,  \* BPlusTreeIndex.leaf_max_size
    internal_max_size, \* BPlusTreeIndex.internal_max_size
    index_map,      \* the key -> record id map the calls describe
    distinct_keys,  \* no insert so far gave a key that was stored
    ops,            \* insert and delete calls made after the build
    tree_op,        \* the last call made on the index and its result
    tree_iter,      \* the TreeIndexIterator the caller holds
    tree_iter_log   \* what the next() calls on it returned, in order

bpvars == <<pool, page_table, free_list, replacer, disk_manager>>
callervars == <<handles, read_failures, last_op, threads>>
heapvars == <<first_page_id, last_page_id, inserted, iter, iter_result>>
treevars == <<root_page_id, leaf_max_size, internal_max_size, index_map,
              distinct_keys, ops, tree_op, tree_iter, tree_iter_log>>

-----------------------------------------------------------------------------
(* Bounds of the model *)

NumFrames == 2      \* pool size of the buffer pool specification
MaxPageId == 3      \* page ids the DiskManager hands out: 1..MaxPageId
MaxHandles == 3     \* live handles a caller holds at once
MaxData == 1        \* byte images a caller writes: 0..MaxData
MaxReadFailures == 1 \* reads the DiskManager fails
NumThreads == 2     \* threads calling the buffer pool concurrently
MaxCalls == 2       \* calls a thread makes on the shared buffer pool
SetUpPages == 2     \* pages created before the threads start
HeapFrames == 2     \* pool size under the table heap
MaxInserts == 3     \* insert_tuple calls
MaxTupleSize == 2   \* encoded tuple sizes: 1..MaxTupleSize
MaxMeta == 2        \* tuple metas: 1..MaxMeta
TablePageCapacity == 4  \* bytes of a table page left for slots and tuples
MaxTupleVal == 2        \* tuple values: 1..MaxTupleVal
TreeFrames == 16    \* pool size under the B+-tree
MaxKey == 12        \* index keys: 1..MaxKey
MaxOps == 3         \* inserts and deletes after the index is built
SmallMaxSize == 3   \* the smaller leaf_max_size / internal_max_size
DeepMinKey == 1     \* keys of the longer runs: DeepMinKey..DeepMaxKey
DeepMaxKey == 5
DeepBuild == 6      \* keys 1..DeepBuild are built before a longer run
DeepMaxOps == 5     \* inserts and deletes of a longer run
TreeIterBuild == 6  \* keys and range bounds of the iterated index: 1..TreeIterBuild
TreeIterInserts == 2 \* single inserts before an index is iterated
TreeIterCalls == 8  \* next() calls on one TreeIndexIterator
EmptiedBuild == 4   \* keys of the index that is emptied: 1..EmptiedBuild
EmptiedOps == 5     \* deletes and inserts on the index that is emptied
SmallTreeFrames == 2 \* pool size under the index of the failing calls
SmallTreeMaxKey == 8 \* keys of that index: 1..SmallTreeMaxKey
SmallTreeOps == 2   \* inserts and deletes after that index is built

-----------------------------------------------------------------------------
(* Program constants *)

INVALID_PAGE_ID == 0
LRUK_K == 2
TEST_MAX_SIZE == 4  \* BPlusTreeIndex::new(key_schema, buffer_pool, 4, 4)

ZeroData == [bytes |-> 0]       \* a zeroed page image

-----------------------------------------------------------------------------
(* Page (buffer/page.rs) *)

Page_empty ==
    [page_id |-> INVALID_PAGE_ID, pin_count |-> 0, is_dirty |-> FALSE, data |-> ZeroData]

\* Page::new(page_id).with_pin_count(1).with_data(data)
Page_new(page_id, data) ==
    [page_id |-> page_id, pin_count |-> 1, is_dirty |-> FALSE, data |-> data]

\* Page::set_data: store the image and mark the page dirty
Page_set_data(page, data) == [page EXCEPT !.data = data, !.is_dirty = TRUE]

-----------------------------------------------------------------------------
(* LRUKReplacer (buffer/replacer.rs) *)

RECURSIVE SeqToSet(_)
SeqToSet(s) == IF s = <<>> THEN {} ELSE {Head(s)} \cup SeqToSet(Tail(s))

LRUKReplacer_new(frames) ==
    [history |-> [f \in frames |-> <<>>],
     evictable |-> [f \in frames |-> FALSE],
     current_timestamp |-> 1]

\* Logical timestamps are only ever compared, so they are renumbered 1..n
\* in their order after every access; the clock is the next number.
ReplacerStamps(r) == UNION {SeqToSet(r.history[f]) : f \in DOMAIN r.history}

ReplacerNormalize(r) ==
    LET stamps == ReplacerStamps(r)
        rank(t) == Cardinality({u \in stamps : u <= t})
    IN  [r EXCEPT
            !.history = [f \in DOMAIN r.history |->
                            [i \in 1..Len(r.history[f]) |-> rank(r.history[f][i])]],
            !.current_timestamp = Cardinality(stamps) + 1]

\* record_access: append the current timestamp, keep at most K entries
record_access(r, frame_id) ==
    LET h == Append(r.history[frame_id], r.current_timestamp)
        trimmed == IF Len(h) > LRUK_K THEN Tail(h) ELSE h
    IN  ReplacerNormalize([r EXCEPT !.history[frame_id] = trimmed,
                                    !.current_timestamp = @ + 1])

set_evictable(r, frame_id, flag) == [r EXCEPT !.evictable[frame_id] = flag]

\* remove: forget all history; the frame is no longer a candidate
replacer_remove(r, frame_id) ==
    ReplacerNormalize([r EXCEPT !.history[frame_id] = <<>>,
                                !.evictable[frame_id] = FALSE])

replacer_size(r) == Cardinality({f \in DOMAIN r.evictable : r.evictable[f]})

\* A frame with fewer than K accesses has backward K-distance +infinity;
\* among those the oldest earliest access wins; otherwise the frame whose
\* K-th most recent access is oldest wins.
EarliestAccess(r, f) == IF r.history[f] = <<>> THEN 0 ELSE r.history[f][1]

EvictBefore(r, f, g) ==
    LET inf_f == Len(r.history[f]) < LRUK_K
        inf_g == Len(r.history[g]) < LRUK_K
    IN  \/ inf_f /\ ~inf_g
        \/ /\ inf_f = inf_g
           /\ \/ EarliestAccess(r, f) < EarliestAccess(r, g)
              \/ EarliestAccess(r, f) = EarliestAccess(r, g) /\ f <= g

\* evict: the victim, or -1 when no frame is evictable
evict_victim(r) ==
    LET cands == {f \in DOMAIN r.evictable : r.evictable[f]}
    IN  IF cands = {} THEN -1
        ELSE CHOOSE f \in cands : \A g \in cands : EvictBefore(r, f, g)

-----------------------------------------------------------------------------
(* DiskManager (storage/disk_manager.rs) *)

DiskManager_new ==
    [next_page_id |-> 1, pages |-> <<>>, deallocated |-> {}, io_error |-> FALSE]

\* read_page fails on an I/O error
disk_read_ok(d) == ~d.io_error

\* allocate_page: the next id, monotone, never INVALID_PAGE_ID
disk_allocate_page(d) ==
    [d EXCEPT !.next_page_id = @ + 1,
              !.pages = Append(d.pages, ZeroData)]

disk_write_page(d, page_id, data) == [d EXCEPT !.pages[page_id] = data]

disk_deallocate_page(d, page_id) == [d EXCEPT !.deallocated = @ \cup {page_id}]

-----------------------------------------------------------------------------
(* BufferPoolManager (buffer/buffer_pool.rs) *)

BufferPoolManager_new(num_pages) ==
    [pool |-> [f \in 0..(num_pages - 1) |-> Page_empty],
     page_table |-> <<>>,
     free_list |-> [i \in 1..num_pages |-> i - 1],
     replacer |-> LRUKReplacer_new(0..(num_pages - 1)),
     disk_manager |-> DiskManager_new]

\* With([x \in {v} |-> e]) is e with x naming the value v: let x = v; e
With(f) == f[CHOOSE x \in DOMAIN f : TRUE]

MapInsert(m, k, v) == [x \in DOMAIN m \cup {k} |-> IF x = k THEN v ELSE m[x]]
MapRemove(m, k) == [x \in DOMAIN m \ {k} |-> m[x]]

\* flush_page that clears is_dirty without writing to disk
flush_page_no_write(b, page_id) ==
    IF page_id \in DOMAIN b.page_table
    THEN [ok |-> TRUE, bpm |-> [b EXCEPT !.pool[b.page_table[page_id]].is_dirty = FALSE]]
    ELSE [ok |-> FALSE, bpm |-> b]

\* flush_page: write the frame image to disk and clear is_dirty
flush_page(b, page_id) ==
    IF page_id \in DOMAIN b.page_table
    THEN LET f == b.page_table[page_id]
         IN  [ok |-> TRUE,
              bpm |-> [b EXCEPT
                         !.disk_manager = disk_write_page(@, page_id, b.pool[f].data),
                         !.pool[f].is_dirty = FALSE]]
    ELSE [ok |-> FALSE, bpm |-> b]

\* Mutant of allocate_frame: the replacer is asked for a victim first
allocate_frame_evict_first(b) ==
    LET f == evict_victim(b.replacer)
    IN  IF f # -1
        THEN LET b1 == [b EXCEPT !.replacer = replacer_remove(@, f)]
                 evicted_page_id == b.pool[f].page_id
                 b2 == IF b.pool[f].is_dirty
                       THEN flush_page(b1, evicted_page_id).bpm
                       ELSE b1
             IN  [ok |-> TRUE, frame_id |-> f,
                  bpm |-> [b2 EXCEPT !.page_table = MapRemove(@, evicted_page_id)]]
        ELSE IF b.free_list # <<>>
             THEN [ok |-> TRUE, frame_id |-> Head(b.free_list),
                   bpm |-> [b EXCEPT !.free_list = Tail(@)]]
             ELSE [ok |-> FALSE, frame_id |-> -1, bpm |-> b]

\* allocate_frame: front of the free list, else the replacer's victim
\* (flushed when dirty, its mapping removed), else an error
allocate_frame(b) ==
    IF b.free_list # <<>>
    THEN [ok |-> TRUE, frame_id |-> Head(b.free_list),
          bpm |-> [b EXCEPT !.free_list = Tail(@)]]
    ELSE LET f == evict_victim(b.replacer)
         IN  IF f # -1
             THEN LET b1 == [b EXCEPT !.replacer = replacer_remove(@, f)]
                      evicted_page_id == b.pool[f].page_id
                      b2 == IF b.pool[f].is_dirty
                            THEN flush_page(b1, evicted_page_id).bpm
                            ELSE b1
                  IN  [ok |-> TRUE, frame_id |-> f,
                       bpm |-> [b2 EXCEPT !.page_table = MapRemove(@, evicted_page_id)]]
             ELSE [ok |-> FALSE, frame_id |-> -1, bpm |-> b]

\* new_page
new_page(b) ==
    IF b.free_list = <<>> /\ replacer_size(b.replacer) = 0
    THEN [ok |-> FALSE, frame_id |-> -1, page_id |-> INVALID_PAGE_ID, bpm |-> b]
    ELSE LET a == allocate_frame(b)
         IN  IF ~a.ok
             THEN [ok |-> FALSE, frame_id |-> -1, page_id |-> INVALID_PAGE_ID, bpm |-> a.bpm]
             ELSE LET f == a.frame_id
                      new_page_id == a.bpm.disk_manager.next_page_id
                      b1 == [a.bpm EXCEPT
                               !.disk_manager = disk_allocate_page(@),
                               !.page_table = MapInsert(@, new_page_id, f),
                               !.pool[f] = Page_new(new_page_id, ZeroData)]
                      b2 == [b1 EXCEPT
                               !.replacer = set_evictable(record_access(@, f), f, FALSE)]
                  IN  [ok |-> TRUE, frame_id |-> f, page_id |-> new_page_id, bpm |-> b2]

\* fetch_page; read_ok is the outcome of DiskManager::read_page on a miss
fetch_page(b, page_id, read_ok) ==
    IF page_id \in DOMAIN b.page_table
    THEN LET f == b.page_table[page_id]
         IN  [ok |-> TRUE, frame_id |-> f,
              bpm |-> [b EXCEPT !.pool[f].pin_count = @ + 1,
                                !.replacer = set_evictable(@, f, FALSE)]]
    ELSE LET a == allocate_frame(b)
         IN  IF ~a.ok
             THEN [ok |-> FALSE, frame_id |-> -1, bpm |-> a.bpm]
             ELSE LET f == a.frame_id
                      b1 == [a.bpm EXCEPT !.page_table = MapInsert(@, page_id, f)]
                  IN  IF ~read_ok
                      THEN [ok |-> FALSE, frame_id |-> -1, bpm |-> b1]
                      ELSE [ok |-> TRUE, frame_id |-> f,
                            bpm |-> [b1 EXCEPT
                                       !.pool[f] = Page_new(page_id,
                                                     b.disk_manager.pages[page_id]),
                                       !.replacer = set_evictable(record_access(@, f),
                                                                  f, FALSE)]]

\* delete_page without the pin_count test
delete_page_ignoring_pins(b, page_id) ==
    IF page_id \in DOMAIN b.page_table
    THEN [ok |-> TRUE,
          bpm |-> [b EXCEPT
                     !.pool[b.page_table[page_id]] = Page_empty,
                     !.page_table = MapRemove(@, page_id),
                     !.free_list = Append(@, b.page_table[page_id]),
                     !.replacer = replacer_remove(@, b.page_table[page_id]),
                     !.disk_manager = disk_deallocate_page(@, page_id)]]
    ELSE [ok |-> TRUE, bpm |-> b]

\* delete_page
delete_page(b, page_id) ==
    IF page_id \in DOMAIN b.page_table
    THEN LET f == b.page_table[page_id]
         IN  IF b.pool[f].pin_count > 0
             THEN [ok |-> FALSE, bpm |-> b]
             ELSE [ok |-> TRUE,
                   bpm |-> [b EXCEPT
                              !.pool[f] = Page_empty,
                              !.page_table = MapRemove(@, page_id),
                              !.free_list = Append(@, f),
                              !.replacer = replacer_remove(@, f),
                              !.disk_manager = disk_deallocate_page(@, page_id)]]
    ELSE [ok |-> TRUE, bpm |-> b]

\* Drop for PageRef: decrement the pin count; at zero, mark the frame that
\* the page table gives for the page's id evictable
drop_page_ref(b, f) ==
    LET page_id == b.pool[f].page_id
        b1 == [b EXCEPT !.pool[f].pin_count = @ - 1]
    IN  IF b1.pool[f].pin_count = 0 /\ page_id \in DOMAIN b.page_table
        THEN [b1 EXCEPT !.replacer = set_evictable(@, b.page_table[page_id], TRUE)]
        ELSE b1

\* page.write().set_data(..) through a handle on frame f
write_page_ref(b, f, data) == [b EXCEPT !.pool[f] = Page_set_data(@, data)]

-----------------------------------------------------------------------------
(* RecordId, TablePage (storage/page/table_page.rs) *)

RecordId_new(page_id, slot_num) == [page_id |-> page_id, slot_num |-> slot_num]

INVALID_RID == RecordId_new(INVALID_PAGE_ID, 0)

None == [some |-> FALSE]
Some(v) == [some |-> TRUE, value |-> v]

\* A tuple is its encoded size and a value; a slot costs SlotSize bytes.
SlotSize == 1
Tuple_new(size, val) == [size |-> size, val |-> val]

RECURSIVE TuplesBytes(_)
TuplesBytes(tuples) ==
    IF tuples = <<>> THEN 0
    ELSE SlotSize + Head(tuples).tuple.size + TuplesBytes(Tail(tuples))

\* TablePage::new(schema, next_page_id)
TablePage_new(next_page_id) == [next_page_id |-> next_page_id, tuples |-> <<>>]

num_tuples(table_page) == Len(table_page.tuples)

\* next_tuple_offset(tuple).is_ok(): the slot directory and the tuple
\* region do not meet after the insert
next_tuple_offset_ok(table_page, tuple) ==
    TuplesBytes(table_page.tuples) + SlotSize + tuple.size <= TablePageCapacity

\* TablePage::insert_tuple: append at the next free slot
TablePage_insert_tuple(table_page, meta, tuple) ==
    [table_page EXCEPT !.tuples = Append(@, [meta |-> meta, tuple |-> tuple])]

\* TablePage::tuple(slot_num): an error beyond num_tuples
TablePage_tuple(table_page, slot_num) ==
    IF slot_num < num_tuples(table_page)
    THEN Some(table_page.tuples[slot_num + 1])
    ELSE None

\* TablePage::update_tuple_meta: an error beyond num_tuples
TablePage_update_tuple_meta(table_page, meta, slot_num) ==
    IF slot_num < num_tuples(table_page)
    THEN Some([table_page EXCEPT !.tuples[slot_num + 1].meta = meta])
    ELSE None

\* TablePage::get_next_rid
TablePage_get_next_rid(table_page, rid) ==
    IF rid.slot_num + 1 < num_tuples(table_page)
    THEN Some(RecordId_new(rid.page_id, rid.slot_num + 1))
    ELSE None

-----------------------------------------------------------------------------
(* TableHeap (storage/table_heap.rs) *)

\* TablePageCodec::decode of a frame image; a zeroed image holds no tuples
TablePage_decode(data) == IF data = ZeroData THEN TablePage_new(INVALID_PAGE_ID) ELSE data

\* fetch_table_page: the handle's frame and the decoded page
fetch_table_page(b, page_id) ==
    With([r \in {fetch_page(b, page_id, disk_read_ok(b.disk_manager))} |->
        IF r.ok
        THEN [ok |-> TRUE, frame_id |-> r.frame_id, bpm |-> r.bpm,
              table_page |-> TablePage_decode(r.bpm.pool[r.frame_id].data)]
        ELSE [ok |-> FALSE, frame_id |-> -1, bpm |-> r.bpm,
              table_page |-> TablePage_new(INVALID_PAGE_ID)]])

\* fetch_table_page whose handle is dropped at the end of the statement:
\* let (_, table_page) = fetch_table_page(..)?
read_table_page(b, page_id) ==
    With([r \in {fetch_table_page(b, page_id)} |->
        [ok |-> r.ok, table_page |-> r.table_page,
         bpm |-> IF r.ok THEN drop_page_ref(r.bpm, r.frame_id) ELSE r.bpm]])

\* TableHeap::try_new
try_new(b) ==
    With([n \in {new_page(b)} |->
        IF ~n.ok THEN [ok |-> FALSE, bpm |-> n.bpm, first_page_id |-> INVALID_PAGE_ID]
        ELSE LET b1 == write_page_ref(n.bpm, n.frame_id, TablePage_new(INVALID_PAGE_ID))
             IN  [ok |-> TRUE, bpm |-> drop_page_ref(b1, n.frame_id),
                  first_page_id |-> n.page_id]])

\* The loop of insert_tuple.  last_frame is the frame of the handle
\* last_page, which is bound once, before the loop.  A tuple that does not
\* fit an empty page fails the assertion; new_page may fail.
RECURSIVE insert_tuple_loop(_, _, _, _, _)
insert_tuple_loop(b, last_frame, last_table_page, last_pid, tuple) ==
    IF next_tuple_offset_ok(last_table_page, tuple)
    THEN [ok |-> TRUE, bpm |-> b, last_table_page |-> last_table_page,
          last_page_id |-> last_pid]
    ELSE IF num_tuples(last_table_page) = 0
    THEN [ok |-> FALSE, bpm |-> b, last_table_page |-> last_table_page,
          last_page_id |-> last_pid]
    ELSE With([n \in {new_page(b)} |->
             IF ~n.ok
             THEN [ok |-> FALSE, bpm |-> n.bpm, last_table_page |-> last_table_page,
                   last_page_id |-> last_pid]
             ELSE LET next_table_page == TablePage_new(INVALID_PAGE_ID)
                      b1 == write_page_ref(n.bpm, n.frame_id, next_table_page)
                      b2 == write_page_ref(b1, last_frame,
                               [last_table_page EXCEPT !.next_page_id = n.page_id])
                      \* next_page goes out of scope at the end of the loop body
                      b3 == drop_page_ref(b2, n.frame_id)
                  IN  insert_tuple_loop(b3, last_frame, next_table_page, n.page_id, tuple)])

\* TableHeap::insert_tuple; heap_last is self.last_page_id
insert_tuple(b, heap_last, meta, tuple) ==
    With([f \in {fetch_table_page(b, heap_last)} |->
        IF ~f.ok
        THEN [ok |-> FALSE, bpm |-> f.bpm, last_page_id |-> heap_last, rid |-> INVALID_RID]
        ELSE With([l \in {insert_tuple_loop(f.bpm, f.frame_id, f.table_page, heap_last, tuple)}
                  |->
                 IF ~l.ok
                 THEN [ok |-> FALSE, bpm |-> drop_page_ref(l.bpm, f.frame_id),
                       last_page_id |-> l.last_page_id, rid |-> INVALID_RID]
                 ELSE LET slot_id == num_tuples(l.last_table_page)
                          page == TablePage_insert_tuple(l.last_table_page, meta, tuple)
                          b1 == write_page_ref(l.bpm, f.frame_id, page)
                      IN  [ok |-> TRUE, bpm |-> drop_page_ref(b1, f.frame_id),
                           last_page_id |-> l.last_page_id,
                           rid |-> RecordId_new(l.last_page_id, slot_id)]])])

\* TableHeap::full_tuple: Some([meta, tuple]) or an error (None)
full_tuple(b, rid) ==
    With([r \in {read_table_page(b, rid.page_id)} |->
        [bpm |-> r.bpm,
         result |-> IF r.ok THEN TablePage_tuple(r.table_page, rid.slot_num) ELSE None]])

\* TableHeap::tuple_meta
tuple_meta(b, rid) ==
    With([t \in {full_tuple(b, rid)} |->
        [bpm |-> t.bpm,
         result |-> IF t.result.some THEN Some(t.result.value.meta) ELSE None]])

\* update_tuple_meta that never stores the re-encoded page
update_tuple_meta_no_write(b, meta, rid) ==
    With([f \in {fetch_table_page(b, rid.page_id)} |->
        IF ~f.ok THEN [ok |-> FALSE, bpm |-> f.bpm]
        ELSE [ok |-> TablePage_update_tuple_meta(f.table_page, meta, rid.slot_num).some,
              bpm |-> drop_page_ref(f.bpm, f.frame_id)]])

\* TableHeap::update_tuple_meta
update_tuple_meta(b, meta, rid) ==
    With([f \in {fetch_table_page(b, rid.page_id)} |->
        IF ~f.ok THEN [ok |-> FALSE, bpm |-> f.bpm]
        ELSE With([u \in {TablePage_update_tuple_meta(f.table_page, meta, rid.slot_num)} |->
                 IF ~u.some
                 THEN [ok |-> FALSE, bpm |-> drop_page_ref(f.bpm, f.frame_id)]
                 ELSE [ok |-> TRUE,
                       bpm |-> drop_page_ref(write_page_ref(f.bpm, f.frame_id, u.value),
                                             f.frame_id)]])])

\* TableHeap::get_first_rid
get_first_rid(b, heap_first) ==
    With([r \in {read_table_page(b, heap_first)} |->
        [ok |-> r.ok, bpm |-> r.bpm,
         result |-> IF r.ok /\ num_tuples(r.table_page) # 0
                    THEN Some(RecordId_new(heap_first, 0))
                    ELSE None]])

\* TableHeap::get_next_rid
get_next_rid(b, rid) ==
    With([r \in {read_table_page(b, rid.page_id)} |->
        LET next_rid == TablePage_get_next_rid(r.table_page, rid)
        IN
        IF ~r.ok THEN [ok |-> FALSE, bpm |-> r.bpm, result |-> None]
        ELSE IF next_rid.some THEN [ok |-> TRUE, bpm |-> r.bpm, result |-> next_rid]
        ELSE IF r.table_page.next_page_id = INVALID_PAGE_ID
             THEN [ok |-> TRUE, bpm |-> r.bpm, result |-> None]
        ELSE With([n \in {read_table_page(r.bpm, r.table_page.next_page_id)} |->
                 [ok |-> n.ok, bpm |-> n.bpm,
                  result |-> IF n.ok /\ num_tuples(n.table_page) # 0
                             THEN Some(RecordId_new(r.table_page.next_page_id, 0))
                             ELSE None]])])

-----------------------------------------------------------------------------
(* TableIterator (storage/table_heap.rs) *)

Included(x) == [kind |-> "Included", value |-> x]
Excluded(x) == [kind |-> "Excluded", value |-> x]
Unbounded == [kind |-> "Unbounded"]

\* TableIterator::new
TableIterator_new(start_bound, end_bound) ==
    [start_bound |-> start_bound, end_bound |-> end_bound,
     cursor |-> INVALID_RID, started |-> FALSE, ended |-> FALSE]

\* self.heap.tuple(self.cursor).ok().map(|tuple| (self.cursor, tuple))
iter_yield(b, it) ==
    With([t \in {full_tuple(b, it.cursor)} |->
        [ok |-> TRUE, bpm |-> t.bpm, it |-> it,
         result |-> IF t.result.some
                    THEN Some([rid |-> it.cursor, tuple |-> t.result.value.tuple])
                    ELSE None]])

iter_stop(ok, b, it) == [ok |-> ok, bpm |-> b, it |-> it, result |-> None]

\* The first call with start bound Excluded(rid) or Unbounded: the cursor
\* is the rid found (n), and the iterator ends when there is none
iter_start(n, it1) ==
    IF ~n.ok THEN iter_stop(FALSE, n.bpm, it1)
    ELSE IF n.result.some
    THEN iter_yield(n.bpm, [it1 EXCEPT !.cursor = n.result.value])
    ELSE iter_stop(TRUE, n.bpm, [it1 EXCEPT !.ended = TRUE])

\* A later call: n is get_next_rid(cursor), checked against the end bound
iter_advance(n, it) ==
    IF ~n.ok THEN iter_stop(FALSE, n.bpm, it)
    ELSE IF ~n.result.some THEN iter_stop(TRUE, n.bpm, it)
    ELSE IF it.end_bound.kind = "Excluded" /\ n.result.value = it.end_bound.value
    THEN iter_stop(TRUE, n.bpm, it)
    ELSE iter_yield(n.bpm,
             [it EXCEPT !.cursor = n.result.value,
                        !.ended = IF it.end_bound.kind = "Included"
                                  THEN n.result.value = it.end_bound.value
                                  ELSE @])

\* TableIterator::next; heap_first is heap.first_page_id
TableIterator_next(b, it, heap_first) ==
    IF it.ended THEN iter_stop(TRUE, b, it)
    ELSE IF it.started THEN iter_advance(get_next_rid(b, it.cursor), it)
    ELSE IF it.start_bound.kind = "Included"
    THEN iter_yield(b, [it EXCEPT !.started = TRUE, !.cursor = it.start_bound.value])
    ELSE IF it.start_bound.kind = "Excluded"
    THEN iter_start(get_next_rid(b, it.start_bound.value), [it EXCEPT !.started = TRUE])
    ELSE iter_start(get_first_rid(b, heap_first), [it EXCEPT !.started = TRUE])

-----------------------------------------------------------------------------
(* B+-tree pages (storage/page/index_page.rs).  A page image is its       *)
(* decoded page; keys are positive integers and the empty key is 0.       *)

EmptyKey == 0      \* Tuple::empty(key_schema)

KV(key, value) == [key |-> key, value |-> value]

BPlusTreeLeafPage_new(max_size) ==
    [kind |-> "leaf", max_size |-> max_size, next_page_id |-> INVALID_PAGE_ID,
     array |-> <<>>]

BPlusTreeInternalPage_new(max_size) ==
    [kind |-> "internal", max_size |-> max_size, array |-> <<>>]

current_size(tree_page) == Len(tree_page.array)

\* min_size: ceil(max_size / 2)
min_size(tree_page) == (tree_page.max_size + 1) \div 2

is_full(tree_page) == current_size(tree_page) > tree_page.max_size

is_underflow(tree_page, is_root) ==
    ~is_root /\ current_size(tree_page) < min_size(tree_page)

can_borrow(tree_page) == current_size(tree_page) > min_size(tree_page)

\* key_at / value_at / kv_at take the 0-based index of the code
kv_at(tree_page, index) == tree_page.array[index + 1]
key_at(tree_page, index) == tree_page.array[index + 1].key
value_at(tree_page, index) == tree_page.array[index + 1].value

Front(s) == SubSeq(s, 1, Len(s) - 1)
Last(s) == s[Len(s)]

\* A stable sort by key: an entry goes after every entry whose key is not
\* greater than its own
RECURSIVE InsertSorted(_, _)
InsertSorted(array, kv) ==
    IF array = <<>> \/ Last(array).key <= kv.key
    THEN Append(array, kv)
    ELSE Append(InsertSorted(Front(array), kv), Last(array))

RECURSIVE SortByKey(_)
SortByKey(array) ==
    IF array = <<>> THEN <<>>
    ELSE InsertSorted(SortByKey(Front(array)), Last(array))

\* The first entry of an internal page keeps its place; the rest is sorted
SortAfterFirst(array) ==
    IF array = <<>> THEN <<>> ELSE <<Head(array)>> \o SortByKey(Tail(array))

\* BPlusTreeLeafPage::insert
leaf_insert(leaf_page, key, rid) ==
    [leaf_page EXCEPT !.array = SortByKey(Append(@, KV(key, rid)))]

\* BPlusTreeLeafPage::batch_insert
leaf_batch_insert(leaf_page, kvs) ==
    [leaf_page EXCEPT !.array = SortByKey(@ \o kvs)]

\* Index (1-based) of the leftmost entry of the array with this key, or 0
KeyIndex(array, key) ==
    LET idx == {i \in DOMAIN array : array[i].key = key}
    IN  IF idx = {} THEN 0 ELSE CHOOSE i \in idx : \A j \in idx : i <= j

RemoveAt(array, i) == SubSeq(array, 1, i - 1) \o SubSeq(array, i + 1, Len(array))

\* A delete that removes the first entry when the key is absent
leaf_delete_or_first(leaf_page, key) ==
    IF KeyIndex(leaf_page.array, key) = 0
    THEN [leaf_page EXCEPT !.array = Tail(@)]
    ELSE [leaf_page EXCEPT !.array = RemoveAt(@, KeyIndex(leaf_page.array, key))]

\* BPlusTreeLeafPage::delete: nothing when the key is absent
leaf_delete(leaf_page, key) ==
    LET i == KeyIndex(leaf_page.array, key)
    IN  IF i = 0 THEN leaf_page ELSE [leaf_page EXCEPT !.array = RemoveAt(@, i)]

\* BPlusTreeLeafPage::look_up: the record id of the leftmost equal key
leaf_look_up(leaf_page, key) ==
    LET i == KeyIndex(leaf_page.array, key)
    IN  IF i = 0 THEN None ELSE Some(leaf_page.array[i].value)

\* BPlusTreeInternalPage::insert
internal_insert(internal_page, key, page_id) ==
    [internal_page EXCEPT !.array = SortAfterFirst(Append(@, KV(key, page_id)))]

\* BPlusTreeInternalPage::batch_insert
internal_batch_insert(internal_page, kvs) ==
    [internal_page EXCEPT !.array = SortAfterFirst(@ \o kvs)]

\* BPlusTreeInternalPage::look_up: the child of the greatest entry whose
\* key is <= key, the first entry's key being minus infinity
internal_look_up(internal_page, key) ==
    LET array == internal_page.array
        idx == {i \in 2..Len(array) : array[i].key <= key}
    IN  IF idx = {} THEN array[1].value
        ELSE array[CHOOSE i \in idx : \A j \in idx : j <= i].value

\* BPlusTreeInternalPage::replace_key: rewrite the separator equal to
\* old_key; nothing when no separator equals it
replace_key(internal_page, old_key, new_key) ==
    LET i == KeyIndex(Tail(internal_page.array), old_key)
    IN  IF internal_page.array = <<>> \/ i = 0 THEN internal_page
        ELSE [internal_page EXCEPT !.array[i + 1].key = new_key]

\* Index (1-based) of the entry of the array with this child, or 0
ValueIndex(array, page_id) ==
    LET idx == {i \in DOMAIN array : array[i].value = page_id}
    IN  IF idx = {} THEN 0 ELSE CHOOSE i \in idx : \A j \in idx : i <= j

\* Mutant of delete_page_id: the entry of the page stays in the parent
delete_page_id_keep(internal_page, page_id) == internal_page

\* BPlusTreeInternalPage::delete_page_id
delete_page_id(internal_page, page_id) ==
    LET i == ValueIndex(internal_page.array, page_id)
    IN  IF i = 0 THEN internal_page ELSE [internal_page EXCEPT !.array = RemoveAt(@, i)]

\* BPlusTreeInternalPage::sibling_page_ids: the neighbours under this parent
sibling_page_ids(internal_page, child_page_id) ==
    LET array == internal_page.array
        i == ValueIndex(array, child_page_id)
    IN  [left |-> IF i > 1 THEN Some(array[i - 1].value) ELSE None,
         right |-> IF i > 0 /\ i < Len(array) THEN Some(array[i + 1].value) ELSE None]

\* BPlusTreePageCodec::decode accepts the image of a tree page only
IsTreeImage(data) == "kind" \in DOMAIN data

-----------------------------------------------------------------------------
(* BPlusTreeIndex (storage/index.rs).  Every operator takes the buffer    *)
(* pool and returns it; a handle is the frame it pins, and it is dropped  *)
(* where the variable holding it goes out of scope or is reassigned.      *)

NoTreePage == BPlusTreeLeafPage_new(0)

\* fetch_tree_page: the handle's frame and the decoded page
fetch_tree_page(b, page_id) ==
    With([r \in {fetch_page(b, page_id, disk_read_ok(b.disk_manager))} |->
        IF ~r.ok
        THEN [ok |-> FALSE, frame_id |-> -1, bpm |-> r.bpm, tree_page |-> NoTreePage]
        ELSE IF ~IsTreeImage(r.bpm.pool[r.frame_id].data)
        THEN [ok |-> FALSE, frame_id |-> -1, bpm |-> drop_page_ref(r.bpm, r.frame_id),
              tree_page |-> NoTreePage]
        ELSE [ok |-> TRUE, frame_id |-> r.frame_id, bpm |-> r.bpm,
              tree_page |-> r.bpm.pool[r.frame_id].data]])

\* fetch_tree_internal_page: the image must decode as an internal page
fetch_tree_internal_page(b, page_id) ==
    With([r \in {fetch_tree_page(b, page_id)} |->
        IF r.ok /\ r.tree_page.kind # "internal"
        THEN [ok |-> FALSE, frame_id |-> -1, bpm |-> drop_page_ref(r.bpm, r.frame_id),
              tree_page |-> NoTreePage]
        ELSE r])

\* let (_, tree_page) = fetch_tree_page(..)?: the handle is dropped at once
read_tree_page(b, page_id) ==
    With([r \in {fetch_tree_page(b, page_id)} |->
        [ok |-> r.ok, tree_page |-> r.tree_page,
         bpm |-> IF r.ok THEN drop_page_ref(r.bpm, r.frame_id) ELSE r.bpm]])

\* find_subtree_leafkv: follow the first (or last) child down to a leaf;
\* indexing an empty page aborts
RECURSIVE find_subtree_leafkv(_, _, _)
find_subtree_leafkv(b, page_id, min_or_max) ==
    With([r \in {read_tree_page(b, page_id)} |->
        LET index == IF min_or_max THEN 0 ELSE current_size(r.tree_page) - 1
        IN  IF ~r.ok \/ current_size(r.tree_page) = 0
            THEN [ok |-> FALSE, bpm |-> r.bpm, kv |-> KV(EmptyKey, INVALID_RID)]
            ELSE IF r.tree_page.kind = "internal"
            THEN find_subtree_leafkv(r.bpm, value_at(r.tree_page, index), min_or_max)
            ELSE [ok |-> TRUE, bpm |-> r.bpm, kv |-> kv_at(r.tree_page, index)]])

find_subtree_min_leafkv(b, page_id) == find_subtree_leafkv(b, page_id, TRUE)

\* The loop of find_leaf_page: curr_page is replaced by the next page
RECURSIVE find_leaf_loop(_, _, _, _, _, _)
find_leaf_loop(b, curr_frame, curr_page_id, curr_tree_page, key, read_set) ==
    IF curr_tree_page.kind = "leaf"
    THEN [ok |-> TRUE, bpm |-> b, frame_id |-> curr_frame, page_id |-> curr_page_id,
          tree_page |-> curr_tree_page, read_set |-> read_set]
    ELSE IF current_size(curr_tree_page) = 0
    THEN [ok |-> FALSE, bpm |-> drop_page_ref(b, curr_frame), frame_id |-> -1,
          page_id |-> INVALID_PAGE_ID, tree_page |-> NoTreePage, read_set |-> read_set]
    ELSE With([next_page_id \in {internal_look_up(curr_tree_page, key)} |->
         With([n \in {fetch_tree_page(b, next_page_id)} |->
             IF ~n.ok
             THEN [ok |-> FALSE, bpm |-> drop_page_ref(n.bpm, curr_frame), frame_id |-> -1,
                   page_id |-> INVALID_PAGE_ID, tree_page |-> NoTreePage,
                   read_set |-> read_set]
             ELSE find_leaf_loop(drop_page_ref(n.bpm, curr_frame), n.frame_id,
                                 next_page_id, n.tree_page, key,
                                 Append(read_set, curr_page_id))])])

\* find_leaf_page on a tree that is not empty
find_leaf_page(b, root, key) ==
    With([r \in {fetch_tree_page(b, root)} |->
        IF ~r.ok
        THEN [ok |-> FALSE, bpm |-> r.bpm, frame_id |-> -1, page_id |-> INVALID_PAGE_ID,
              tree_page |-> NoTreePage, read_set |-> <<>>]
        ELSE find_leaf_loop(r.bpm, r.frame_id, root, r.tree_page, key, <<>>)])

\* get
get(b, root, key) ==
    IF root = INVALID_PAGE_ID THEN [ok |-> TRUE, bpm |-> b, result |-> None]
    ELSE With([f \in {find_leaf_page(b, root, key)} |->
             IF ~f.ok THEN [ok |-> FALSE, bpm |-> f.bpm, result |-> None]
             ELSE [ok |-> TRUE, bpm |-> drop_page_ref(f.bpm, f.frame_id),
                   result |-> leaf_look_up(f.tree_page, key)]])

\* A split point one entry above the middle
split_point_high(tree_page) == current_size(tree_page) \div 2 + 1

\* split_off(current_size / 2): the entries from this index on move
split_point(tree_page) == current_size(tree_page) \div 2

\* split: the upper half moves to a new right page; returns the page that
\* keeps the lower half and the entry to push up
split(b, tree_page, leaf_max, internal_max) ==
    With([n \in {new_page(b)} |->
        LET at == split_point(tree_page)
            kept == SubSeq(tree_page.array, 1, at)
            moved == SubSeq(tree_page.array, at + 1, Len(tree_page.array))
        IN  IF ~n.ok
            THEN [ok |-> FALSE, bpm |-> n.bpm, tree_page |-> tree_page,
                  internalkv |-> KV(EmptyKey, INVALID_PAGE_ID)]
            ELSE IF tree_page.kind = "leaf"
            THEN With([new_leaf_page \in {[leaf_batch_insert(BPlusTreeLeafPage_new(leaf_max), moved)
                          EXCEPT !.next_page_id = tree_page.next_page_id]}
                      |->
                     [ok |-> TRUE,
                      bpm |-> drop_page_ref(
                                  write_page_ref(n.bpm, n.frame_id, new_leaf_page),
                                  n.frame_id),
                      tree_page |-> [tree_page EXCEPT !.array = kept,
                                                      !.next_page_id = n.page_id],
                      internalkv |-> KV(key_at(new_leaf_page, 0), n.page_id)]])
            ELSE With([m \in {find_subtree_min_leafkv(
                          write_page_ref(n.bpm, n.frame_id,
                              internal_batch_insert(
                                  BPlusTreeInternalPage_new(internal_max), moved)),
                          n.page_id)}
                      |->
                     [ok |-> m.ok, bpm |-> drop_page_ref(m.bpm, n.frame_id),
                      tree_page |-> [tree_page EXCEPT !.array = kept],
                      internalkv |-> KV(m.kv.key, n.page_id)]])])

\* A new root that enters the pushed-up page under the empty key
new_root_empty_separator(root, internalkv, internal_max) ==
    internal_insert(
        internal_insert(BPlusTreeInternalPage_new(internal_max), EmptyKey, root),
        EmptyKey, internalkv.value)

\* The new root of the split loop: the old root and the pushed-up entry
new_root_internal_page(root, internalkv, internal_max) ==
    internal_insert(
        internal_insert(BPlusTreeInternalPage_new(internal_max), EmptyKey, root),
        internalkv.key, internalkv.value)

\* The split loop of insert
RECURSIVE insert_loop(_, _, _, _, _, _, _, _)
insert_loop(b, root, curr_frame, curr_page_id, curr_tree_page, read_set, leaf_max, internal_max) ==
    IF ~is_full(curr_tree_page)
    THEN [ok |-> TRUE, root_page_id |-> root,
          bpm |-> drop_page_ref(write_page_ref(b, curr_frame, curr_tree_page), curr_frame)]
    ELSE With([s \in {split(b, curr_tree_page, leaf_max, internal_max)} |->
         With([b1 \in {write_page_ref(s.bpm, curr_frame, s.tree_page)} |->
             IF ~s.ok
             THEN [ok |-> FALSE, root_page_id |-> root,
                   bpm |-> drop_page_ref(s.bpm, curr_frame)]
             ELSE IF read_set # <<>>
             THEN With([p \in {fetch_tree_page(b1, Last(read_set))} |->
                      IF ~p.ok
                      THEN [ok |-> FALSE, root_page_id |-> root,
                            bpm |-> drop_page_ref(p.bpm, curr_frame)]
                      ELSE insert_loop(drop_page_ref(p.bpm, curr_frame), root, p.frame_id,
                                       Last(read_set),
                                       internal_insert(p.tree_page, s.internalkv.key,
                                                       s.internalkv.value),
                                       Front(read_set), leaf_max, internal_max)])
             ELSE IF curr_page_id = root
             THEN With([n \in {new_page(b1)} |->
                      IF ~n.ok
                      THEN [ok |-> FALSE, root_page_id |-> root,
                            bpm |-> drop_page_ref(n.bpm, curr_frame)]
                      ELSE insert_loop(
                               drop_page_ref(
                                   write_page_ref(n.bpm, n.frame_id,
                                       new_root_internal_page(root, s.internalkv,
                                                              internal_max)),
                                   curr_frame),
                               n.page_id, n.frame_id, n.page_id,
                               new_root_internal_page(root, s.internalkv, internal_max),
                               <<>>, leaf_max, internal_max)])
             ELSE insert_loop(b1, root, curr_frame, curr_page_id, s.tree_page, read_set,
                              leaf_max, internal_max)])])

\* start_new_tree
start_new_tree(b, key, rid, leaf_max) ==
    With([n \in {new_page(b)} |->
        IF ~n.ok THEN [ok |-> FALSE, root_page_id |-> INVALID_PAGE_ID, bpm |-> n.bpm]
        ELSE [ok |-> TRUE, root_page_id |-> n.page_id,
              bpm |-> drop_page_ref(
                          write_page_ref(n.bpm, n.frame_id,
                              leaf_insert(BPlusTreeLeafPage_new(leaf_max), key, rid)),
                          n.frame_id)]])

\* insert
insert(b, root, key, rid, leaf_max, internal_max) ==
    IF root = INVALID_PAGE_ID THEN start_new_tree(b, key, rid, leaf_max)
    ELSE With([f \in {find_leaf_page(b, root, key)} |->
             IF ~f.ok THEN [ok |-> FALSE, root_page_id |-> root, bpm |-> f.bpm]
             ELSE insert_loop(f.bpm, root, f.frame_id, f.page_id,
                              leaf_insert(f.tree_page, key, rid), f.read_set,
                              leaf_max, internal_max)])

\* find_sibling_pages
find_sibling_pages(b, parent_page_id, child_page_id) ==
    With([r \in {fetch_tree_internal_page(b, parent_page_id)} |->
        IF ~r.ok THEN [ok |-> FALSE, bpm |-> r.bpm, left |-> None, right |-> None]
        ELSE With([s \in {sibling_page_ids(r.tree_page, child_page_id)} |->
                 [ok |-> TRUE, bpm |-> drop_page_ref(r.bpm, r.frame_id),
                  left |-> s.left, right |-> s.right]])])

\* The entry that moves, the two pages after the move and the separator
\* rewrite (old key, new key) of borrow; min_max: borrow the minimum of the
\* right sibling, else the maximum of the left sibling
borrow_move(b, tree_page, borrowed_tree_page, min_max) ==
    LET kv == IF min_max THEN Head(borrowed_tree_page.array)
                         ELSE Last(borrowed_tree_page.array)
        borrowed == [borrowed_tree_page EXCEPT
                        !.array = IF min_max THEN Tail(@) ELSE Front(@)]
    IN  IF tree_page.kind = "internal"
        THEN With([m \in {find_subtree_min_leafkv(b, value_at(borrowed, 0))} |->
                 [ok |-> m.ok, bpm |-> m.bpm,
                  tree_page |-> internal_insert(tree_page, kv.key, kv.value),
                  borrowed_tree_page |-> borrowed,
                  old_internal_key |-> IF min_max THEN kv.key ELSE key_at(tree_page, 0),
                  new_internal_key |-> m.kv.key]])
        ELSE With([page \in {leaf_insert(tree_page, kv.key, kv.value)} |->
                 [ok |-> min_max \/ current_size(page) >= 2, bpm |-> b,
                  tree_page |-> page, borrowed_tree_page |-> borrowed,
                  old_internal_key |-> IF min_max THEN kv.key
                                       ELSE IF current_size(page) >= 2
                                            THEN key_at(page, 1) ELSE EmptyKey,
                  new_internal_key |-> IF min_max THEN key_at(borrowed, 0)
                                       ELSE key_at(page, 0)]])

\* borrow: FALSE when the sibling cannot lend
borrow(b, parent_page_id, page_id, borrowed_page_id, min_max) ==
    With([bf \in {fetch_tree_page(b, borrowed_page_id)} |->
    IF ~bf.ok THEN [ok |-> FALSE, borrowed |-> FALSE, bpm |-> bf.bpm]
    ELSE IF ~can_borrow(bf.tree_page)
    THEN [ok |-> TRUE, borrowed |-> FALSE, bpm |-> drop_page_ref(bf.bpm, bf.frame_id)]
    ELSE
    With([pf \in {fetch_tree_page(bf.bpm, page_id)} |->
    IF ~pf.ok
    THEN [ok |-> FALSE, borrowed |-> FALSE, bpm |-> drop_page_ref(pf.bpm, bf.frame_id)]
    ELSE IF pf.tree_page.kind # bf.tree_page.kind
    THEN [ok |-> FALSE, borrowed |-> FALSE,
          bpm |-> drop_page_ref(drop_page_ref(pf.bpm, pf.frame_id), bf.frame_id)]
    ELSE
    With([mv \in {borrow_move(pf.bpm, pf.tree_page, bf.tree_page, min_max)} |->
    IF ~mv.ok
    THEN [ok |-> FALSE, borrowed |-> FALSE,
          bpm |-> drop_page_ref(drop_page_ref(mv.bpm, pf.frame_id), bf.frame_id)]
    ELSE
    With([par \in {fetch_tree_internal_page(
             write_page_ref(write_page_ref(mv.bpm, pf.frame_id, mv.tree_page),
                            bf.frame_id, mv.borrowed_tree_page),
             parent_page_id)}
         |->
    IF ~par.ok
    THEN [ok |-> FALSE, borrowed |-> FALSE,
          bpm |-> drop_page_ref(drop_page_ref(par.bpm, pf.frame_id), bf.frame_id)]
    ELSE LET b3 == write_page_ref(par.bpm, par.frame_id,
                       replace_key(par.tree_page, mv.old_internal_key,
                                   mv.new_internal_key))
         IN  [ok |-> TRUE, borrowed |-> TRUE,
              bpm |-> drop_page_ref(
                          drop_page_ref(drop_page_ref(b3, par.frame_id), pf.frame_id),
                          bf.frame_id)]])])])])

borrow_min_kv(b, parent_page_id, page_id, borrowed_page_id) ==
    borrow(b, parent_page_id, page_id, borrowed_page_id, TRUE)

borrow_max_kv(b, parent_page_id, page_id, borrowed_page_id) ==
    borrow(b, parent_page_id, page_id, borrowed_page_id, FALSE)

\* The page that merge writes to the left page: an internal right page
\* enters with its first key set to the minimum key of its subtree (min_key)
merged_page(left, right, min_key) ==
    IF left.kind = "internal"
    THEN internal_batch_insert(left, [right.array EXCEPT ![1].key = min_key])
    ELSE [leaf_batch_insert(left, right.array) EXCEPT !.next_page_id = right.next_page_id]

\* merge: the right page is absorbed by the left page; returns the page to
\* continue with and the root
merge(b, root, parent_page_id, left_page_id, right_page_id) ==
    With([lf \in {fetch_tree_page(b, left_page_id)} |->
    IF ~lf.ok
    THEN [ok |-> FALSE, bpm |-> lf.bpm, root_page_id |-> root, page_id |-> parent_page_id]
    ELSE
    With([rf \in {read_tree_page(lf.bpm, right_page_id)} |->
    IF ~rf.ok \/ lf.tree_page.kind # rf.tree_page.kind
    THEN [ok |-> FALSE, bpm |-> drop_page_ref(rf.bpm, lf.frame_id),
          root_page_id |-> root, page_id |-> parent_page_id]
    ELSE
    With([m \in {IF lf.tree_page.kind = "internal" /\ current_size(rf.tree_page) > 0
         THEN find_subtree_min_leafkv(rf.bpm, value_at(rf.tree_page, 0))
         ELSE [ok |-> lf.tree_page.kind = "leaf", bpm |-> rf.bpm,
               kv |-> KV(EmptyKey, INVALID_RID)]}
         |->
    IF ~m.ok
    THEN [ok |-> FALSE, bpm |-> drop_page_ref(m.bpm, lf.frame_id),
          root_page_id |-> root, page_id |-> parent_page_id]
    ELSE
    \* write the left page, delete the right page, fetch the parent
    With([par \in {fetch_tree_internal_page(
             delete_page(
                 write_page_ref(m.bpm, lf.frame_id,
                     merged_page(lf.tree_page, rf.tree_page, m.kv.key)),
                 right_page_id).bpm,
             parent_page_id)}
         |->
    IF ~par.ok
    THEN [ok |-> FALSE, bpm |-> drop_page_ref(par.bpm, lf.frame_id),
          root_page_id |-> root, page_id |-> parent_page_id]
    ELSE
    With([parent \in {delete_page_id(par.tree_page, right_page_id)} |->
    IF parent_page_id = root /\ current_size(parent) = 1
    THEN \* the only child becomes the root; delete the old root
         [ok |-> TRUE, root_page_id |-> left_page_id, page_id |-> left_page_id,
          bpm |-> drop_page_ref(
                      drop_page_ref(delete_page(par.bpm, parent_page_id).bpm,
                                    par.frame_id),
                      lf.frame_id)]
    ELSE [ok |-> TRUE, root_page_id |-> root, page_id |-> parent_page_id,
          bpm |-> drop_page_ref(
                      drop_page_ref(write_page_ref(par.bpm, par.frame_id, parent),
                                    par.frame_id),
                      lf.frame_id)]])])])])])

\* A delete loop that never rebalances: an underflowing page stays as it is
delete_loop_no_rebalance(b, root, curr_tree_page, curr_page_id, read_set) ==
    [ok |-> TRUE, bpm |-> b, root_page_id |-> root]

\* One pass of the rebalance loop of delete from the siblings (sib) on:
\* borrow from the left, else from the right, else merge
RECURSIVE delete_loop(_, _, _, _, _)
rebalance(sib, root, parent_page_id, curr_page_id, read_set) ==
    IF ~sib.ok THEN [ok |-> FALSE, bpm |-> sib.bpm, root_page_id |-> root]
    ELSE
    With([bl \in {IF sib.left.some
         THEN borrow_max_kv(sib.bpm, parent_page_id, curr_page_id, sib.left.value)
         ELSE [ok |-> TRUE, borrowed |-> FALSE, bpm |-> sib.bpm]}
         |->
    IF ~bl.ok \/ bl.borrowed THEN [ok |-> bl.ok, bpm |-> bl.bpm, root_page_id |-> root]
    ELSE
    With([br \in {IF sib.right.some
         THEN borrow_min_kv(bl.bpm, parent_page_id, curr_page_id, sib.right.value)
         ELSE [ok |-> TRUE, borrowed |-> FALSE, bpm |-> bl.bpm]}
         |->
    IF ~br.ok \/ br.borrowed THEN [ok |-> br.ok, bpm |-> br.bpm, root_page_id |-> root]
    ELSE IF ~sib.left.some /\ ~sib.right.some
    THEN [ok |-> FALSE, bpm |-> br.bpm, root_page_id |-> root]
    ELSE
    With([mg \in {IF sib.left.some
         THEN merge(br.bpm, root, parent_page_id, sib.left.value, curr_page_id)
         ELSE merge(br.bpm, root, parent_page_id, curr_page_id, sib.right.value)}
         |->
    IF ~mg.ok THEN [ok |-> FALSE, bpm |-> mg.bpm, root_page_id |-> mg.root_page_id]
    ELSE
    With([np \in {read_tree_page(mg.bpm, mg.page_id)} |->
    IF ~np.ok THEN [ok |-> FALSE, bpm |-> np.bpm, root_page_id |-> mg.root_page_id]
    ELSE delete_loop(np.bpm, mg.root_page_id, np.tree_page, mg.page_id,
                     Front(read_set))])])])])

\* The rebalance loop of delete
delete_loop(b, root, curr_tree_page, curr_page_id, read_set) ==
    IF ~is_underflow(curr_tree_page, root = curr_page_id)
    THEN [ok |-> TRUE, bpm |-> b, root_page_id |-> root]
    ELSE IF read_set = <<>>
    THEN [ok |-> FALSE, bpm |-> b, root_page_id |-> root]
    ELSE rebalance(find_sibling_pages(b, Last(read_set), curr_page_id), root,
                   Last(read_set), curr_page_id, read_set)

\* delete; the handle of the leaf is held until the call returns
delete(b, root, key) ==
    IF root = INVALID_PAGE_ID THEN [ok |-> TRUE, bpm |-> b, root_page_id |-> root]
    ELSE With([f \in {find_leaf_page(b, root, key)} |->
             IF ~f.ok THEN [ok |-> FALSE, bpm |-> f.bpm, root_page_id |-> root]
             ELSE With([leaf_tree_page \in {leaf_delete(f.tree_page, key)} |->
                      [delete_loop(write_page_ref(f.bpm, f.frame_id, leaf_tree_page),
                                   root, leaf_tree_page, f.page_id, f.read_set)
                          EXCEPT !.bpm = drop_page_ref(@, f.frame_id)]])])

-----------------------------------------------------------------------------
(* TreeIndexIterator (storage/index.rs) *)

\* fetch_tree_leaf_page: the image must decode as a leaf page
fetch_tree_leaf_page(b, page_id) ==
    With([r \in {fetch_tree_page(b, page_id)} |->
        IF r.ok /\ r.tree_page.kind # "leaf"
        THEN [ok |-> FALSE, frame_id |-> -1, bpm |-> drop_page_ref(r.bpm, r.frame_id),
              tree_page |-> NoTreePage]
        ELSE r])

\* The loop of get_first_leaf_page: follow child 0 down to a leaf
RECURSIVE get_first_leaf_loop(_, _)
get_first_leaf_loop(b, curr_tree_page) ==
    IF curr_tree_page.kind = "leaf"
    THEN [ok |-> TRUE, bpm |-> b, leaf_page |-> curr_tree_page]
    ELSE IF current_size(curr_tree_page) = 0
    THEN [ok |-> FALSE, bpm |-> b, leaf_page |-> NoTreePage]
    ELSE With([n \in {read_tree_page(b, value_at(curr_tree_page, 0))} |->
             IF ~n.ok THEN [ok |-> FALSE, bpm |-> n.bpm, leaf_page |-> NoTreePage]
             ELSE get_first_leaf_loop(n.bpm, n.tree_page)])

get_first_leaf_page(b, root) ==
    With([r \in {read_tree_page(b, root)} |->
        IF ~r.ok THEN [ok |-> FALSE, bpm |-> r.bpm, leaf_page |-> NoTreePage]
        ELSE get_first_leaf_loop(r.bpm, r.tree_page)])

\* BPlusTreeLeafPage::next_closest: the 0-based index of the first key
\* >= key (> key when not included)
next_closest(leaf_page, key, included) ==
    LET hits == {i \in 1..Len(leaf_page.array) :
                    IF included THEN leaf_page.array[i].key >= key
                                ELSE leaf_page.array[i].key > key}
    IN  IF hits = {} THEN None
        ELSE Some((CHOOSE i \in hits : \A j \in hits : i <= j) - 1)

\* TreeIndexIterator::new; leaf_page is BPlusTreeLeafPage::empty
TreeIndexIterator_new(start_bound, end_bound) ==
    [start_bound |-> start_bound, end_bound |-> end_bound,
     leaf_page |-> BPlusTreeLeafPage_new(0), cursor |-> 0, started |-> FALSE]

\* load_next_leaf_page
load_next_leaf_page(b, it) ==
    IF it.leaf_page.next_page_id = INVALID_PAGE_ID
    THEN [ok |-> TRUE, loaded |-> FALSE, bpm |-> b, it |-> it]
    ELSE With([r \in {fetch_tree_leaf_page(b, it.leaf_page.next_page_id)} |->
             IF ~r.ok THEN [ok |-> FALSE, loaded |-> FALSE, bpm |-> r.bpm, it |-> it]
             ELSE [ok |-> TRUE, loaded |-> TRUE, bpm |-> drop_page_ref(r.bpm, r.frame_id),
                   it |-> [it EXCEPT !.leaf_page = r.tree_page]]])

\* What a next() call leaves: Ok(result), Err or a panic, and the iterator
tree_iter_ret(status, result, b, it) ==
    [status |-> status, result |-> result, bpm |-> b, it |-> it]

\* The end bound test of the later calls: kv.0 <= end, kv.0 < end, or none
within_end_bound(end_bound, key) ==
    IF end_bound.kind = "Included" THEN key <= end_bound.value
    ELSE IF end_bound.kind = "Excluded" THEN key < end_bound.value
    ELSE TRUE

\* First call: Ok(Some(self.leaf_page.array[self.cursor].1)), no bound test
tree_iter_first(b, it) ==
    IF it.cursor >= current_size(it.leaf_page)
    THEN tree_iter_ret("Panic", None, b, it)
    ELSE tree_iter_ret("Ok", Some(value_at(it.leaf_page, it.cursor)), b, it)

\* Later calls: the entry under the cursor, tested against the end bound
tree_iter_current(b, it) ==
    IF it.cursor >= current_size(it.leaf_page)
    THEN tree_iter_ret("Panic", None, b, it)
    ELSE IF within_end_bound(it.end_bound, key_at(it.leaf_page, it.cursor))
    THEN tree_iter_ret("Ok", Some(value_at(it.leaf_page, it.cursor)), b, it)
    ELSE tree_iter_ret("Ok", None, b, it)

\* Later calls, after self.cursor += 1
tree_iter_advance(b, it) ==
    IF it.cursor >= current_size(it.leaf_page)
    THEN With([l \in {load_next_leaf_page(b, it)} |->
             IF ~l.ok THEN tree_iter_ret("Err", None, l.bpm, l.it)
             ELSE IF l.loaded THEN tree_iter_current(l.bpm, [l.it EXCEPT !.cursor = 0])
             ELSE tree_iter_ret("Ok", None, l.bpm, l.it)])
    ELSE tree_iter_current(b, it)

\* First call with an Included or Excluded start bound; f is the result of
\* find_leaf_page, whose handle lives to the end of the call
tree_iter_seek(f, it, included) ==
    IF ~f.ok THEN tree_iter_ret("Err", None, f.bpm, it)
    ELSE With([idx \in {next_closest(f.tree_page, it.start_bound.value, included)} |->
             IF idx.some
             THEN tree_iter_ret("Ok", Some(value_at(f.tree_page, idx.value)),
                                drop_page_ref(f.bpm, f.frame_id),
                                [it EXCEPT !.leaf_page = f.tree_page, !.cursor = idx.value])
             ELSE With([l \in {load_next_leaf_page(f.bpm,
                                   [it EXCEPT !.leaf_page = f.tree_page])} |->
                      IF ~l.ok
                      THEN tree_iter_ret("Err", None, drop_page_ref(l.bpm, f.frame_id), l.it)
                      ELSE IF l.loaded
                      THEN tree_iter_first(drop_page_ref(l.bpm, f.frame_id),
                                           [l.it EXCEPT !.cursor = 0])
                      ELSE tree_iter_ret("Ok", None, drop_page_ref(l.bpm, f.frame_id),
                                         l.it)])])

\* First call with an Unbounded start bound; g is the result of
\* get_first_leaf_page
tree_iter_leftmost(g, it) ==
    IF ~g.ok THEN tree_iter_ret("Err", None, g.bpm, it)
    ELSE tree_iter_first(g.bpm, [it EXCEPT !.leaf_page = g.leaf_page, !.cursor = 0])

\* TreeIndexIterator::next
TreeIndexIterator_next(b, root, it) ==
    IF it.started THEN tree_iter_advance(b, [it EXCEPT !.cursor = @ + 1])
    ELSE IF it.start_bound.kind = "Unbounded"
    THEN tree_iter_leftmost(get_first_leaf_page(b, root), [it EXCEPT !.started = TRUE])
    ELSE IF root = INVALID_PAGE_ID
    THEN tree_iter_ret("Ok", None, b, [it EXCEPT !.started = TRUE])
    ELSE tree_iter_seek(find_leaf_page(b, root, it.start_bound.value),
                        [it EXCEPT !.started = TRUE],
                        it.start_bound.kind = "Included")

-----------------------------------------------------------------------------
(* The buffer pool specification: a caller that creates, fetches, writes, *)
(* flushes and deletes pages and drops its handles in any order.           *)

BPM == [pool |-> pool, page_table |-> page_table, free_list |-> free_list,
        replacer |-> replacer, disk_manager |-> disk_manager]

SetBPM(b) ==
    /\ pool' = b.pool
    /\ page_table' = b.page_table
    /\ free_list' = b.free_list
    /\ replacer' = b.replacer
    /\ disk_manager' = b.disk_manager

Handle(f, pid) == [frame |-> f, page_id |-> pid]

AllocatedPageIds == 1..(disk_manager.next_page_id - 1)

InitBPM(b) ==
    /\ pool = b.pool
    /\ page_table = b.page_table
    /\ free_list = b.free_list
    /\ replacer = b.replacer
    /\ disk_manager = b.disk_manager

Op(op, ok, page_id) == [op |-> op, ok |-> ok, page_id |-> page_id]

\* No table heap has been created
InitNoHeap ==
    /\ first_page_id = INVALID_PAGE_ID
    /\ last_page_id = INVALID_PAGE_ID
    /\ inserted = <<>>
    /\ iter = TableIterator_new(Unbounded, Unbounded)
    /\ iter_result = None

Threads == 1..NumThreads

\* A thread that is not inside a call on the buffer pool
ThreadIdle ==
    [pc |-> "idle", op |-> "none", path |-> "none",
     page_id |-> INVALID_PAGE_ID, frame_id |-> -1,
     evicted_page_id |-> INVALID_PAGE_ID, data |-> ZeroData, calls |-> 0]

\* No caller holds a handle
InitNoCaller ==
    /\ handles = EmptyBag
    /\ read_failures = 0
    /\ last_op = Op("new", TRUE, INVALID_PAGE_ID)
    /\ threads = [t \in Threads |-> ThreadIdle]

TreeOp(op, key, rid, ok, fresh) ==
    [op |-> op, key |-> key, rid |-> rid, ok |-> ok, fresh |-> fresh]

\* No index has been created
InitNoTree ==
    /\ root_page_id = INVALID_PAGE_ID
    /\ leaf_max_size = TEST_MAX_SIZE
    /\ internal_max_size = TEST_MAX_SIZE
    /\ index_map = <<>>
    /\ distinct_keys = TRUE
    /\ ops = 0
    /\ tree_op = TreeOp("new", EmptyKey, INVALID_RID, TRUE, TRUE)
    /\ tree_iter = TreeIndexIterator_new(Unbounded, Unbounded)
    /\ tree_iter_log = <<>>

Init ==
    /\ InitBPM(BufferPoolManager_new(NumFrames))
    /\ InitNoCaller
    /\ InitNoHeap
    /\ InitNoTree

\* let page = buffer_pool.new_page()
NewPage ==
    /\ BagCardinality(handles) < MaxHandles
    /\ LET r == new_page(BPM)
       IN  /\ r.ok => r.page_id <= MaxPageId
           /\ SetBPM(r.bpm)
           /\ handles' = IF r.ok THEN handles (+) SetToBag({Handle(r.frame_id, r.page_id)})
                                 ELSE handles
           /\ last_op' = Op("new_page", r.ok, r.page_id)
           /\ UNCHANGED <<read_failures, threads, heapvars, treevars>>

\* let page = buffer_pool.fetch_page(page_id)
FetchPage(page_id, read_ok) ==
    /\ BagCardinality(handles) < MaxHandles
    /\ LET r == fetch_page(BPM, page_id, read_ok)
           read_failed == ~read_ok /\ page_id \notin DOMAIN page_table
                              /\ allocate_frame(BPM).ok
       IN  /\ read_failed => read_failures < MaxReadFailures
           /\ read_failures' = IF read_failed THEN read_failures + 1 ELSE read_failures
           /\ SetBPM(r.bpm)
           /\ handles' = IF r.ok THEN handles (+) SetToBag({Handle(r.frame_id, page_id)})
                                 ELSE handles
           /\ last_op' = Op("fetch_page", r.ok, page_id)
           /\ UNCHANGED <<threads, heapvars, treevars>>

\* buffer_pool.flush_page(page_id)
FlushPage(page_id) ==
    LET r == flush_page(BPM, page_id)
    IN  /\ SetBPM(r.bpm)
        /\ last_op' = Op("flush_page", r.ok, page_id)
        /\ UNCHANGED <<handles, read_failures, threads, heapvars, treevars>>

\* buffer_pool.delete_page(page_id)
DeletePage(page_id) ==
    LET r == delete_page(BPM, page_id)
    IN  /\ SetBPM(r.bpm)
        /\ last_op' = Op("delete_page", r.ok, page_id)
        /\ UNCHANGED <<handles, read_failures, threads, heapvars, treevars>>

\* drop(page); a decrement of a zero pin count (u32) aborts the program
DropHandle(h) ==
    /\ pool[h.frame].pin_count > 0
    /\ SetBPM(drop_page_ref(BPM, h.frame))
    /\ handles' = handles (-) SetToBag({h})
    /\ last_op' = Op("drop", TRUE, h.page_id)
    /\ UNCHANGED <<read_failures, threads, heapvars, treevars>>

\* page.write().unwrap().set_data(data)
WriteData(h, data) ==
    /\ SetBPM(write_page_ref(BPM, h.frame, [bytes |-> data]))
    /\ last_op' = [op |-> "set_data", ok |-> TRUE, page_id |-> h.page_id, data |-> data]
    /\ UNCHANGED <<handles, read_failures, threads, heapvars, treevars>>

Next ==
    \/ NewPage
    \/ \E page_id \in AllocatedPageIds, read_ok \in BOOLEAN : FetchPage(page_id, read_ok)
    \/ \E page_id \in AllocatedPageIds : FlushPage(page_id)
    \/ \E page_id \in AllocatedPageIds : DeletePage(page_id)
    \/ \E h \in BagToSet(handles) : DropHandle(h)

vars == <<bpvars, callervars, heapvars, treevars>>

Spec == Init /\ [][Next]_vars

\* The same caller, also storing bytes through its handles (and not
\* deleting pages)
NextData ==
    \/ NewPage
    \/ \E page_id \in AllocatedPageIds, read_ok \in BOOLEAN : FetchPage(page_id, read_ok)
    \/ \E page_id \in AllocatedPageIds : FlushPage(page_id)
    \/ \E h \in BagToSet(handles) : DropHandle(h)
    \/ \E h \in BagToSet(handles), data \in 0..MaxData : WriteData(h, data)

SpecData == Init /\ [][NextData]_vars

-----------------------------------------------------------------------------
(* The concurrent specification: the threads share one buffer pool and     *)
(* call new_page and fetch_page on it, and drop the handles they got. The  *)
(* methods take &self and lock the free list, the replacer, a frame and    *)
(* the page table one at a time, so a call is a sequence of steps, one per *)
(* locked access, and the steps of the threads interleave. The page table  *)
(* is taken as one shard, and the guards that allocate_frame creates in    *)
(* its conditions live to the end of its if-else chain. Reads succeed.     *)

\* The guards thread t holds between its steps
Guards(t) ==
    CASE threads[t].pc \in {"hit_pin", "hit_set_evictable"} -> {"page_table"}
      [] threads[t].pc = "evict" -> {"free_list"}
      [] threads[t].pc \in {"evicted_page", "flush_evicted", "page_table_remove"}
             -> {"free_list", "replacer"}
      [] OTHER -> {}

\* No other thread holds the lock
Unlocked(t, lock) == \A u \in Threads \ {t} : lock \notin Guards(u)

Goto(t, pc) == threads' = [threads EXCEPT ![t].pc = pc]

Calling == {t \in Threads : threads[t].pc # "idle"}

\* Thread t enters a call
Call(t, op) == [ThreadIdle EXCEPT !.op = op, !.calls = threads[t].calls + 1]

\* The call of thread t returns
Return(t, ok) ==
    /\ threads' = [threads EXCEPT ![t] = [ThreadIdle EXCEPT !.calls = threads[t].calls]]
    /\ last_op' = [op |-> threads[t].op, ok |-> ok, page_id |-> threads[t].page_id,
                   thread |-> t, path |-> threads[t].path,
                   frame_id |-> threads[t].frame_id]

\* Thread t calls new_page: the check that the pool is not full
ThreadNewPage(t) ==
    /\ threads[t].pc = "idle"
    /\ threads[t].calls < MaxCalls
    /\ BagCardinality(handles) + Cardinality(Calling) < MaxHandles
    /\ disk_manager.next_page_id + Cardinality({u \in Calling : threads[u].op = "new_page"})
           <= MaxPageId
    /\ Unlocked(t, "free_list") /\ Unlocked(t, "replacer")
    /\ IF free_list = <<>> /\ replacer_size(replacer) = 0
       THEN /\ threads' = [threads EXCEPT ![t].calls = @ + 1]
            /\ last_op' = [op |-> "new_page", ok |-> FALSE, page_id |-> INVALID_PAGE_ID,
                           thread |-> t, path |-> "none", frame_id |-> -1]
       ELSE /\ threads' = [threads EXCEPT ![t] =
                   [Call(t, "new_page") EXCEPT !.pc = "allocate_frame"]]
            /\ UNCHANGED last_op
    /\ UNCHANGED <<bpvars, handles, read_failures, heapvars, treevars>>

\* The page ids the callers know: those that a new_page call has returned
ReturnedPageIds ==
    AllocatedPageIds \ {threads[t].page_id : t \in {u \in Threads : threads[u].op = "new_page"}}

\* Thread t calls fetch_page(page_id): the lookup in the page table
ThreadFetchPage(t, page_id) ==
    /\ threads[t].pc = "idle"
    /\ threads[t].calls < MaxCalls
    /\ BagCardinality(handles) + Cardinality(Calling) < MaxHandles
    /\ threads' = [threads EXCEPT ![t] =
           IF page_id \in DOMAIN page_table
           THEN [Call(t, "fetch_page") EXCEPT !.path = "hit", !.pc = "hit_pin",
                                   !.page_id = page_id, !.frame_id = page_table[page_id]]
           ELSE [Call(t, "fetch_page") EXCEPT !.path = "miss",
                                   !.pc = "allocate_frame", !.page_id = page_id]]
    /\ UNCHANGED <<bpvars, handles, read_failures, last_op, heapvars, treevars>>

\* allocate_frame: self.free_list.write().unwrap().pop_front()
ThreadPopFront(t) ==
    /\ threads[t].pc = "allocate_frame"
    /\ Unlocked(t, "free_list")
    /\ IF free_list # <<>>
       THEN /\ free_list' = Tail(free_list)
            /\ threads' = [threads EXCEPT ![t].frame_id = Head(free_list),
                                          ![t].pc = "page_table_insert"]
       ELSE /\ Goto(t, "evict")
            /\ UNCHANGED free_list
    /\ UNCHANGED <<pool, page_table, replacer, disk_manager, handles, read_failures,
                   last_op, heapvars, treevars>>

\* allocate_frame: self.replacer.write().unwrap().evict()
ThreadEvict(t) ==
    /\ threads[t].pc = "evict"
    /\ Unlocked(t, "replacer")
    /\ \E f \in {evict_victim(replacer)} :
           IF f # -1
           THEN /\ replacer' = replacer_remove(replacer, f)
                /\ threads' = [threads EXCEPT ![t].frame_id = f, ![t].pc = "evicted_page"]
                /\ UNCHANGED last_op
           ELSE /\ Return(t, FALSE)
                /\ UNCHANGED replacer
    /\ UNCHANGED <<pool, page_table, free_list, disk_manager, handles, read_failures,
                   heapvars, treevars>>

\* allocate_frame: the page id and the dirty flag of the evicted page
ThreadEvictedPage(t) ==
    /\ threads[t].pc = "evicted_page"
    /\ threads' = [threads EXCEPT
           ![t].evicted_page_id = pool[threads[t].frame_id].page_id,
           ![t].pc = IF pool[threads[t].frame_id].is_dirty
                     THEN "flush_evicted" ELSE "page_table_remove"]
    /\ UNCHANGED <<bpvars, handles, read_failures, last_op, heapvars, treevars>>

\* allocate_frame: self.flush_page(evicted_page_id)
ThreadFlushEvicted(t) ==
    /\ threads[t].pc = "flush_evicted"
    /\ SetBPM(flush_page(BPM, threads[t].evicted_page_id).bpm)
    /\ Goto(t, "page_table_remove")
    /\ UNCHANGED <<handles, read_failures, last_op, heapvars, treevars>>

\* allocate_frame: self.page_table.remove(&evicted_page_id)
ThreadPageTableRemove(t) ==
    /\ threads[t].pc = "page_table_remove"
    /\ Unlocked(t, "page_table")
    /\ page_table' = MapRemove(page_table, threads[t].evicted_page_id)
    /\ Goto(t, "page_table_insert")
    /\ UNCHANGED <<pool, free_list, replacer, disk_manager, handles, read_failures,
                   last_op, heapvars, treevars>>

\* self.page_table.insert(page_id, frame_id), of a page new_page allocates
\* on the disk first; fetch_page then reads the page from the disk
ThreadPageTableInsert(t) ==
    /\ threads[t].pc = "page_table_insert"
    /\ Unlocked(t, "page_table")
    /\ IF threads[t].op = "new_page"
       THEN /\ disk_manager' = disk_allocate_page(disk_manager)
            /\ page_table' = MapInsert(page_table, disk_manager.next_page_id,
                                       threads[t].frame_id)
            /\ threads' = [threads EXCEPT ![t].page_id = disk_manager.next_page_id,
                                          ![t].pc = "replace"]
       ELSE /\ page_table' = MapInsert(page_table, threads[t].page_id, threads[t].frame_id)
            /\ threads' = [threads EXCEPT ![t].data = disk_manager.pages[threads[t].page_id],
                                          ![t].pc = "replace"]
            /\ UNCHANGED disk_manager
    /\ UNCHANGED <<pool, free_list, replacer, handles, read_failures, last_op,
                   heapvars, treevars>>

\* self.pool[frame_id].write().unwrap().replace(new_page)
ThreadReplace(t) ==
    /\ threads[t].pc = "replace"
    /\ pool' = [pool EXCEPT ![threads[t].frame_id] =
                    Page_new(threads[t].page_id, threads[t].data)]
    /\ Goto(t, "record_access")
    /\ UNCHANGED <<page_table, free_list, replacer, disk_manager, handles, read_failures,
                   last_op, heapvars, treevars>>

\* self.replacer.write().unwrap().record_access(frame_id)
ThreadRecordAccess(t) ==
    /\ threads[t].pc = "record_access"
    /\ Unlocked(t, "replacer")
    /\ replacer' = record_access(replacer, threads[t].frame_id)
    /\ Goto(t, "set_evictable")
    /\ UNCHANGED <<pool, page_table, free_list, disk_manager, handles, read_failures,
                   last_op, heapvars, treevars>>

\* fetch_page on a hit: page.write().unwrap().pin_count += 1
ThreadPin(t) ==
    /\ threads[t].pc = "hit_pin"
    /\ pool' = [pool EXCEPT ![threads[t].frame_id].pin_count = @ + 1]
    /\ Goto(t, "hit_set_evictable")
    /\ UNCHANGED <<page_table, free_list, replacer, disk_manager, handles, read_failures,
                   last_op, heapvars, treevars>>

\* self.replacer.write().unwrap().set_evictable(frame_id, false), and the
\* call returns its handle
ThreadSetEvictable(t) ==
    /\ threads[t].pc \in {"set_evictable", "hit_set_evictable"}
    /\ Unlocked(t, "replacer")
    /\ replacer' = set_evictable(replacer, threads[t].frame_id, FALSE)
    /\ handles' = handles (+) SetToBag({Handle(threads[t].frame_id, threads[t].page_id)})
    /\ Return(t, TRUE)
    /\ UNCHANGED <<pool, page_table, free_list, disk_manager, read_failures,
                   heapvars, treevars>>

\* A thread drops a handle; the drop locks the replacer
ThreadDrop(h) ==
    /\ \A t \in Threads : "replacer" \notin Guards(t)
    /\ DropHandle(h)

NextConc ==
    \/ \E t \in Threads : ThreadNewPage(t)
    \/ \E t \in Threads, page_id \in ReturnedPageIds : ThreadFetchPage(t, page_id)
    \/ \E t \in Threads : ThreadPopFront(t)
    \/ \E t \in Threads : ThreadEvict(t)
    \/ \E t \in Threads : ThreadEvictedPage(t)
    \/ \E t \in Threads : ThreadFlushEvicted(t)
    \/ \E t \in Threads : ThreadPageTableRemove(t)
    \/ \E t \in Threads : ThreadPageTableInsert(t)
    \/ \E t \in Threads : ThreadReplace(t)
    \/ \E t \in Threads : ThreadRecordAccess(t)
    \/ \E t \in Threads : ThreadPin(t)
    \/ \E t \in Threads : ThreadSetEvictable(t)
    \/ \E h \in BagToSet(handles) : ThreadDrop(h)
    \/ \E h \in BagToSet(handles), data \in 1..MaxData : WriteData(h, data)

\* let page = buffer_pool.new_page(); drop(page)
SetUpPage(b) == With([r \in {new_page(b)} |-> drop_page_ref(r.bpm, r.frame_id)])

\* The pool after n such calls
RECURSIVE SetUp(_, _)
SetUp(b, n) == IF n = 0 THEN b ELSE SetUpPage(SetUp(b, n - 1))

\* The threads start on a pool that one thread has set up
InitConc ==
    /\ \E n \in 0..SetUpPages : InitBPM(SetUp(BufferPoolManager_new(NumFrames), n))
    /\ InitNoCaller
    /\ InitNoHeap
    /\ InitNoTree

SpecConc == InitConc /\ [][NextConc]_vars

-----------------------------------------------------------------------------
(* The table heap specification: one heap over a small pool; tuples are    *)
(* inserted and an iterator is created and advanced in any order.          *)

Metas == 1..MaxMeta
Tuples == {Tuple_new(size, val) : size \in 1..MaxTupleSize, val \in 1..MaxTupleVal}

InsertedRids == {inserted[i].rid : i \in DOMAIN inserted}
Bounds == {Unbounded} \cup {Included(rid) : rid \in InsertedRids}
                      \cup {Excluded(rid) : rid \in InsertedRids}

InitHeap ==
    LET t == try_new(BufferPoolManager_new(HeapFrames))
    IN  /\ InitBPM(t.bpm)
        /\ first_page_id = t.first_page_id
        /\ last_page_id = t.first_page_id
        /\ inserted = <<>>
        /\ iter = TableIterator_new(Unbounded, Unbounded)
        /\ iter_result = None
        /\ InitNoCaller
        /\ InitNoTree

\* let rid = table_heap.insert_tuple(&meta, &tuple)
InsertTuple(meta, tuple) ==
    /\ Len(inserted) < MaxInserts
    /\ \E r \in {insert_tuple(BPM, last_page_id, meta, tuple)} :
           /\ SetBPM(r.bpm)
           /\ last_page_id' = r.last_page_id
           /\ inserted' = IF r.ok
                          THEN Append(inserted, [rid |-> r.rid, meta |-> meta, tuple |-> tuple])
                          ELSE inserted
           /\ UNCHANGED <<first_page_id, iter, iter_result, callervars, treevars>>

\* let mut iterator = TableIterator::new(table_heap, (start, end))
IterNew(start_bound, end_bound) ==
    /\ iter' = TableIterator_new(start_bound, end_bound)
    /\ iter_result' = None
    /\ UNCHANGED <<bpvars, first_page_id, last_page_id, inserted, callervars, treevars>>

\* iterator.next()
IterNext ==
    \E r \in {TableIterator_next(BPM, iter, first_page_id)} :
        /\ SetBPM(r.bpm)
        /\ iter' = r.it
        /\ iter_result' = r.result
        /\ UNCHANGED <<first_page_id, last_page_id, inserted, callervars, treevars>>

NextHeap ==
    \/ \E meta \in Metas, tuple \in Tuples : InsertTuple(meta, tuple)
    \/ \E start_bound \in Bounds, end_bound \in Bounds : IterNew(start_bound, end_bound)
    \/ IterNext

SpecHeap == InitHeap /\ [][NextHeap]_vars

\* table_heap.update_tuple_meta(meta, rid)
UpdateTupleMeta(meta, rid) ==
    /\ \E r \in {update_tuple_meta(BPM, meta, rid)} : SetBPM(r.bpm)
    /\ UNCHANGED <<heapvars, callervars, treevars>>

\* A heap that takes inserts and meta updates of the inserted RecordIds
NextHeapMeta ==
    \/ \E meta \in Metas, tuple \in Tuples : InsertTuple(meta, tuple)
    \/ \E meta \in Metas, rid \in InsertedRids : UpdateTupleMeta(meta, rid)

SpecHeapMeta == InitHeap /\ [][NextHeapMeta]_vars

-----------------------------------------------------------------------------
(* The B+-tree specification: an index over a large pool.  It is built as *)
(* the tests build it (keys 1..n in ascending order) or key by key, and   *)
(* then takes a bounded number of inserts and deletes.                    *)

Keys == 1..MaxKey
MaxSizes == {SmallMaxSize, TEST_MAX_SIZE}

\* BPlusTreeIndex::new over a fresh pool
InitTree ==
    /\ InitBPM(BufferPoolManager_new(TreeFrames))
    /\ root_page_id = INVALID_PAGE_ID
    /\ leaf_max_size \in MaxSizes
    /\ internal_max_size = leaf_max_size
    /\ index_map = <<>>
    /\ distinct_keys = TRUE
    /\ ops = 0
    /\ tree_op = TreeOp("new", EmptyKey, INVALID_RID, TRUE, TRUE)
    /\ tree_iter = TreeIndexIterator_new(Unbounded, Unbounded)
    /\ tree_iter_log = <<>>
    /\ InitNoCaller
    /\ InitNoHeap

\* tests::build_index: insert key i with RecordId (i, i) for i = from..n
RECURSIVE build_index(_, _, _, _, _, _)
build_index(b, root, from, n, leaf_max, internal_max) ==
    IF from > n THEN [ok |-> TRUE, bpm |-> b, root_page_id |-> root]
    ELSE With([r \in {insert(b, root, from, RecordId_new(from, from),
                              leaf_max, internal_max)} |->
             IF ~r.ok THEN r
             ELSE build_index(r.bpm, r.root_page_id, from + 1, n, leaf_max, internal_max)])

BuildIndex(n) ==
    /\ tree_op.op = "new"
    /\ \E r \in {build_index(BPM, root_page_id, 1, n, leaf_max_size, internal_max_size)} :
           /\ r.ok
           /\ SetBPM(r.bpm)
           /\ root_page_id' = r.root_page_id
           /\ index_map' = [k \in 1..n |-> RecordId_new(k, k)]
           /\ tree_op' = TreeOp("insert", n, RecordId_new(n, n), TRUE, TRUE)
           /\ UNCHANGED <<leaf_max_size, internal_max_size, distinct_keys, ops,
                          tree_iter, tree_iter_log, callervars, heapvars>>

\* index.insert(&key, rid); every call brings a record id not used before
Insert(key) ==
    /\ \E rid \in {RecordId_new(ops + 1, 0)}, fresh \in {key \notin DOMAIN index_map} :
       \E r \in {insert(BPM, root_page_id, key, rid, leaf_max_size, internal_max_size)} :
           /\ SetBPM(r.bpm)
           /\ root_page_id' = r.root_page_id
           /\ index_map' = IF r.ok /\ fresh THEN MapInsert(index_map, key, rid)
                           ELSE index_map
           /\ distinct_keys' = (distinct_keys /\ fresh)
           /\ tree_op' = TreeOp("insert", key, rid, r.ok, fresh)
           /\ ops' = ops + 1
           /\ UNCHANGED <<leaf_max_size, internal_max_size, tree_iter, tree_iter_log,
                          callervars, heapvars>>

\* index.delete(&key)
Delete(key) ==
    /\ \E r \in {delete(BPM, root_page_id, key)} :
           /\ SetBPM(r.bpm)
           /\ root_page_id' = r.root_page_id
           /\ index_map' = IF key \in DOMAIN index_map THEN MapRemove(index_map, key)
                           ELSE index_map
           /\ tree_op' = TreeOp("delete", key, INVALID_RID, r.ok, TRUE)
           /\ ops' = ops + 1
           /\ UNCHANGED <<leaf_max_size, internal_max_size, distinct_keys,
                          tree_iter, tree_iter_log, callervars, heapvars>>

NextTree ==
    \/ \E n \in 1..MaxKey : BuildIndex(n)
    \/ \E key \in Keys : ops < MaxOps /\ Insert(key)
    \/ \E key \in Keys : ops < MaxOps /\ Delete(key)

SpecTree == InitTree /\ [][NextTree]_vars

\* The same index under a longer run of calls on a few keys
DeepKeys == DeepMinKey..DeepMaxKey

InitTreeDeep == InitTree /\ leaf_max_size = TEST_MAX_SIZE

NextTreeDeep ==
    \/ BuildIndex(DeepBuild)
    \/ \E key \in DeepKeys : ops < DeepMaxOps /\ Insert(key)
    \/ \E key \in DeepKeys : ops < DeepMaxOps /\ Delete(key)

SpecTreeDeep == InitTreeDeep /\ [][NextTreeDeep]_vars

\* An index built by inserts only, and then one TreeIndexIterator over it
TreeIterKeys == 1..TreeIterBuild
TreeBounds == {Unbounded} \cup {Included(k) : k \in TreeIterKeys}
                         \cup {Excluded(k) : k \in TreeIterKeys}

Iterating == tree_op.op \in {"iter_new", "iter_next"}

\* let mut iterator = TreeIndexIterator::new(index, (start, end))
TreeIterNew(start_bound, end_bound) ==
    /\ root_page_id # INVALID_PAGE_ID
    /\ ~Iterating
    /\ tree_iter' = TreeIndexIterator_new(start_bound, end_bound)
    /\ tree_iter_log' = <<>>
    /\ tree_op' = TreeOp("iter_new", EmptyKey, INVALID_RID, TRUE, TRUE)
    /\ UNCHANGED <<bpvars, root_page_id, leaf_max_size, internal_max_size, index_map,
                   distinct_keys, ops, callervars, heapvars>>

\* iterator.next(); the caller goes on for one call after a None
TreeIterNext ==
    /\ Iterating
    /\ Len(tree_iter_log) < TreeIterCalls
    /\ Cardinality({i \in DOMAIN tree_iter_log : ~tree_iter_log[i].result.some}) < 2
    /\ \E r \in {TreeIndexIterator_next(BPM, root_page_id, tree_iter)} :
           /\ SetBPM(r.bpm)
           /\ tree_iter' = r.it
           /\ tree_iter_log' = Append(tree_iter_log,
                                      [status |-> r.status, result |-> r.result])
           /\ tree_op' = TreeOp("iter_next", EmptyKey, INVALID_RID, r.status = "Ok", TRUE)
           /\ UNCHANGED <<root_page_id, leaf_max_size, internal_max_size, index_map,
                          distinct_keys, ops, callervars, heapvars>>

NextTreeIter ==
    \/ \E n \in TreeIterKeys : BuildIndex(n)
    \/ \E key \in TreeIterKeys :
          /\ ~Iterating /\ ops < TreeIterInserts /\ key \notin DOMAIN index_map
          /\ Insert(key)
    \/ \E start_bound \in TreeBounds, end_bound \in TreeBounds :
          TreeIterNew(start_bound, end_bound)
    \/ TreeIterNext

SpecTreeIter == InitTree /\ [][NextTreeIter]_vars

-----------------------------------------------------------------------------
(* Claims about the buffer pool *)

Frames == DOMAIN pool

LiveHandles(f) == {h \in BagToSet(handles) : h.frame = f}

\* C1: every live handle obtained from fetch_page(pid) or new_page refers to
\* a frame whose page_id is the id that was requested or allocated.
C1_HandlePageIdStable ==
    \A h \in BagToSet(handles) : pool[h.frame].page_id = h.page_id

\* C2: a frame with pin_count >= 1 never has its page replaced or its
\* page-table mapping removed by a step.
C2_PinnedNeverEvicted ==
    [][\A f \in Frames :
          pool[f].pin_count >= 1 =>
             /\ pool'[f].page_id = pool[f].page_id
             /\ \A p \in DOMAIN page_table :
                   page_table[p] = f =>
                      p \in DOMAIN page_table' /\ page_table'[p] = f]_vars

\* C3: the page table is injective, no two frames hold the same valid page
\* id, and every entry pid -> f has frame f holding page_id = pid.
C3_OneFramePerPage ==
    /\ \A p, q \in DOMAIN page_table : page_table[p] = page_table[q] => p = q
    /\ \A f, g \in Frames :
          (pool[f].page_id # INVALID_PAGE_ID /\ pool[f].page_id = pool[g].page_id) => f = g
    /\ \A p \in DOMAIN page_table : pool[page_table[p]].page_id = p

\* C9: new_page fails exactly when the free list is empty and the replacer
\* has no evictable frame, which is when all frames are pinned; the failed
\* call changes nothing; and once the last handle of a page is dropped in a
\* full pool the next new_page succeeds.
PoolFull == free_list = <<>> /\ replacer_size(replacer) = 0

C9_NewPageFailsOnlyWhenFull ==
    [][/\ last_op'.op = "new_page" => (last_op'.ok <=> ~PoolFull)
       /\ (last_op'.op = "new_page" /\ ~last_op'.ok) =>
             /\ UNCHANGED <<bpvars, handles>>
             /\ \A f \in Frames : pool[f].pin_count >= 1
       /\ (/\ last_op'.op = "drop"
           /\ PoolFull
           /\ \E f \in Frames : LiveHandles(f) # {} /\ LiveHandles(f)' = {}) =>
             ~PoolFull']_vars

\* C10: a mapped frame is evictable iff its pin_count is 0, and
\* replacer.size() is the number of mapped pages with no live handle.
C10_EvictableIffUnpinned ==
    /\ \A p \in DOMAIN page_table :
          replacer.evictable[page_table[p]] <=> pool[page_table[p]].pin_count = 0
    /\ replacer_size(replacer) =
          Cardinality({p \in DOMAIN page_table : LiveHandles(page_table[p]) = {}})

\* C11: free-list discipline: every frame is on the free list exactly once
\* or the target of exactly one page-table entry, never both and never
\* neither, so |free_list| + |page_table| = N, and the free, pinned,
\* evictable and unpinned-non-evictable frames partition the frames.
FreeFrames == SeqToSet(free_list)
MappedTo(f) == {p \in DOMAIN page_table : page_table[p] = f}
PinnedFrames == {f \in Frames : pool[f].pin_count > 0}
EvictableFrames == {f \in Frames : replacer.evictable[f]}
UnpinnedNonEvictableFrames ==
    {f \in Frames : f \notin FreeFrames /\ pool[f].pin_count = 0 /\ ~replacer.evictable[f]}

C11_FreeListDiscipline ==
    /\ \A f \in Frames :
          \/ /\ Cardinality({i \in DOMAIN free_list : free_list[i] = f}) = 1
             /\ MappedTo(f) = {}
          \/ /\ f \notin FreeFrames
             /\ Cardinality(MappedTo(f)) = 1
    /\ Len(free_list) + Cardinality(DOMAIN page_table) = Cardinality(Frames)
    /\ \A f \in Frames :
          Cardinality({S \in {FreeFrames, PinnedFrames, EvictableFrames,
                              UnpinnedNonEvictableFrames} : f \in S}) = 1

\* C12: delete_page(pid) on a mapped page with pin_count > 0 returns false
\* and changes nothing: mapping, bytes, pin count, free list, replacer and
\* the DiskManager (the id is not deallocated) are as before.
C12_DeletePinnedIsNoOp ==
    [][(/\ last_op'.op = "delete_page"
        /\ last_op'.page_id \in DOMAIN page_table
        /\ pool[page_table[last_op'.page_id]].pin_count > 0) =>
          /\ ~last_op'.ok
          /\ UNCHANGED <<pool, page_table, free_list, replacer, disk_manager>>]_vars

\* A failed delete_page on a page that a handle pins
C12_DeleteRefusedWhilePinned ==
    /\ last_op.op = "delete_page" /\ ~last_op.ok
    /\ last_op.page_id \in DOMAIN page_table
    /\ pool[page_table[last_op.page_id]].pin_count > 0
    /\ \E h \in BagToSet(handles) : h.page_id = last_op.page_id

\* C13: delete_page(pid) on a mapped page with pin_count 0 returns true;
\* afterwards pid is not in the page table, its frame is on the free list,
\* the replacer no longer counts the frame (size one less), the id is
\* deallocated, and every other page's mapping, pin count and bytes are
\* unchanged; delete_page of an unmapped pid returns true and changes no
\* buffer pool state.
C13_DeleteUnpinned ==
    [][last_op'.op = "delete_page" =>
          /\ (/\ last_op'.page_id \in DOMAIN page_table
              /\ pool[page_table[last_op'.page_id]].pin_count = 0) =>
                /\ last_op'.ok
                /\ last_op'.page_id \notin DOMAIN page_table'
                /\ page_table[last_op'.page_id] \in SeqToSet(free_list')
                /\ ~replacer'.evictable[page_table[last_op'.page_id]]
                /\ replacer_size(replacer') = replacer_size(replacer) - 1
                /\ last_op'.page_id \in disk_manager'.deallocated
                /\ \A q \in DOMAIN page_table \ {last_op'.page_id} :
                      /\ q \in DOMAIN page_table'
                      /\ page_table'[q] = page_table[q]
                      /\ pool'[page_table[q]] = pool[page_table[q]]
          /\ last_op'.page_id \notin DOMAIN page_table =>
                /\ last_op'.ok
                /\ UNCHANGED <<pool, page_table, free_list, replacer, disk_manager>>]_vars

\* C13 without the replacer count
C13_DeleteUnpinnedFrame ==
    [][last_op'.op = "delete_page" =>
          /\ (/\ last_op'.page_id \in DOMAIN page_table
              /\ pool[page_table[last_op'.page_id]].pin_count = 0) =>
                /\ last_op'.ok
                /\ last_op'.page_id \notin DOMAIN page_table'
                /\ page_table[last_op'.page_id] \in SeqToSet(free_list')
                /\ ~replacer'.evictable[page_table[last_op'.page_id]]
                /\ last_op'.page_id \in disk_manager'.deallocated
                /\ \A q \in DOMAIN page_table \ {last_op'.page_id} :
                      /\ q \in DOMAIN page_table'
                      /\ page_table'[q] = page_table[q]
                      /\ pool'[page_table[q]] = pool[page_table[q]]
          /\ last_op'.page_id \notin DOMAIN page_table =>
                /\ last_op'.ok
                /\ UNCHANGED <<pool, page_table, free_list, replacer, disk_manager>>]_vars

\* The bytes fetch_page(pid) gives: the frame's when pid is mapped, the
\* disk copy otherwise
PageBytesIn(b, pid) ==
    IF pid \in DOMAIN b.page_table THEN b.pool[b.page_table[pid]].data
    ELSE b.disk_manager.pages[pid]

PageBytes(pid) == PageBytesIn(BPM, pid)

\* C14: write/evict/fetch round trip: bytes stored into a page through a
\* handle are the bytes of that page afterwards, no new_page, fetch_page,
\* flush_page or drop (evictions included) changes the bytes of any page,
\* and a successful fetch_page(pid) returns a frame with the bytes of pid.
C14_WriteEvictFetchRoundTrip ==
    [][/\ last_op'.op = "set_data" =>
             PageBytesIn(BPM', last_op'.page_id) = [bytes |-> last_op'.data]
       /\ last_op'.op \in {"new_page", "fetch_page", "flush_page", "drop"} =>
             \A pid \in AllocatedPageIds : PageBytesIn(BPM', pid) = PageBytes(pid)
       /\ (last_op'.op = "fetch_page" /\ last_op'.ok) =>
             pool'[page_table'[last_op'.page_id]].data = PageBytes(last_op'.page_id)]_vars

\* C20: flush_page(pid) returns true iff pid is mapped; when mapped the
\* disk copy of pid equals the frame bytes and is_dirty is false afterwards,
\* and nothing is evicted: page table, free list, pin counts, replacer, the
\* other frames and the other disk pages are unchanged; when unmapped it
\* returns false and writes nothing.
C20_FlushPage ==
    [][last_op'.op = "flush_page" =>
          /\ last_op'.ok <=> last_op'.page_id \in DOMAIN page_table
          /\ last_op'.page_id \in DOMAIN page_table =>
                /\ disk_manager'.pages[last_op'.page_id]
                      = pool[page_table[last_op'.page_id]].data
                /\ pool' = [pool EXCEPT ![page_table[last_op'.page_id]].is_dirty = FALSE]
                /\ UNCHANGED <<page_table, free_list, replacer>>
                /\ disk_manager' = [disk_manager EXCEPT
                                      !.pages[last_op'.page_id] = disk_manager'.pages[last_op'.page_id]]
          /\ last_op'.page_id \notin DOMAIN page_table =>
                UNCHANGED <<pool, page_table, free_list, replacer, disk_manager>>]_vars

\* A flush of a pinned dirty page whose bytes differed from the disk copy
C20_FlushedWrittenPage ==
    /\ last_op.op = "flush_page" /\ last_op.ok
    /\ last_op.page_id \in DOMAIN page_table
    /\ pool[page_table[last_op.page_id]].pin_count > 0
    /\ pool[page_table[last_op.page_id]].data # ZeroData
    /\ ~pool[page_table[last_op.page_id]].is_dirty
    /\ disk_manager.pages[last_op.page_id] = pool[page_table[last_op.page_id]].data

-----------------------------------------------------------------------------
(* Claims about the table heap *)

\* C5: every RecordId returned by an insert_tuple reads back, through
\* full_tuple, the meta and the tuple of that insert, right after the insert
\* and after every later insert, page overflows included.
C5_InsertReadRoundTrip ==
    \A i \in DOMAIN inserted :
        full_tuple(BPM, inserted[i].rid).result =
            Some([meta |-> inserted[i].meta, tuple |-> inserted[i].tuple])

\* The items a fresh iterator yields before its first None; at most fuel.
RECURSIVE IterCollect(_, _, _)
IterCollect(b, it, fuel) ==
    LET r == TableIterator_next(b, it, first_page_id)
    IN  IF fuel = 0 \/ ~r.result.some THEN <<>>
        ELSE <<r.result.value>> \o IterCollect(r.bpm, r.it, fuel - 1)

\* C6: after any sequence of inserts, an iterator over the unbounded range
\* yields exactly the inserted RecordIds, once each, in insertion order,
\* with their tuples, and then None.
C6_IterationInInsertionOrder ==
    IterCollect(BPM, TableIterator_new(Unbounded, Unbounded), MaxInserts + 1) =
        [i \in DOMAIN inserted |-> [rid |-> inserted[i].rid, tuple |-> inserted[i].tuple]]

\* The RecordIds of the heap in heap order: the slots of each page of the
\* chain that starts at first_page_id
RECURSIVE HeapRidsFrom(_, _)
HeapRidsFrom(page_id, fuel) ==
    IF page_id = INVALID_PAGE_ID \/ fuel = 0 THEN <<>>
    ELSE LET table_page == read_table_page(BPM, page_id).table_page
         IN  [i \in 1..num_tuples(table_page) |-> RecordId_new(page_id, i - 1)]
                \o HeapRidsFrom(table_page.next_page_id, fuel - 1)

HeapRids == HeapRidsFrom(first_page_id, MaxInserts + 1)

RidBefore(r, q) ==
    r.page_id < q.page_id \/ (r.page_id = q.page_id /\ r.slot_num < q.slot_num)

RidInRange(start_bound, end_bound, rid) ==
    /\ start_bound.kind = "Included" => ~RidBefore(rid, start_bound.value)
    /\ start_bound.kind = "Excluded" => RidBefore(start_bound.value, rid)
    /\ end_bound.kind = "Included" => ~RidBefore(end_bound.value, rid)
    /\ end_bound.kind = "Excluded" => RidBefore(rid, end_bound.value)

RECURSIVE SelectInOrder(_, _, _)
SelectInOrder(rids, start_bound, end_bound) ==
    IF rids = <<>> THEN <<>>
    ELSE (IF RidInRange(start_bound, end_bound, Head(rids)) THEN <<Head(rids)>> ELSE <<>>)
            \o SelectInOrder(Tail(rids), start_bound, end_bound)

\* The RecordIds a fresh iterator over the range yields before its first None
IterRids(start_bound, end_bound) ==
    LET items == IterCollect(BPM, TableIterator_new(start_bound, end_bound),
                             MaxInserts + 1)
    IN  [i \in DOMAIN items |-> items[i].rid]

\* C16: for every heap and every range of RecordIds, a TableIterator yields
\* exactly the RecordIds of the heap within both bounds, in heap order,
\* starting at the start bound and never going past the end bound.
C16_TableIteratorRangeExact ==
    \A start_bound \in Bounds, end_bound \in Bounds :
        IterRids(start_bound, end_bound) = SelectInOrder(HeapRids, start_bound, end_bound)

\* C16 for the one range [first RID, first RID]
C16_SingleRidRange ==
    (Len(inserted) >= 2 /\ last_page_id = first_page_id) =>
        IterRids(Included(RecordId_new(first_page_id, 0)),
                 Included(RecordId_new(first_page_id, 0)))
            = <<RecordId_new(first_page_id, 0)>>

\* The iterator has reached its end bound: the cursor equals an Included
\* bound, or the successor of the cursor equals an Excluded bound
EndBoundReached ==
    /\ iter.started
    /\ \/ iter.end_bound.kind = "Included" /\ iter.cursor = iter.end_bound.value
       \/ /\ iter.end_bound.kind = "Excluded"
          /\ iter.cursor # INVALID_RID
          /\ get_next_rid(BPM, iter.cursor).result = Some(iter.end_bound.value)

\* C17: once the end bound is reached the ended flag is true and next()
\* returns None, in every later state, inserts in between included.
C17_EndStateStable ==
    EndBoundReached =>
        /\ iter.ended
        /\ TableIterator_next(BPM, iter, first_page_id).result = None

\* C17 without the flag: next() returns None once the end bound is reached
C17_NoneAfterEnd ==
    EndBoundReached => TableIterator_next(BPM, iter, first_page_id).result = None

\* The table page under page_id as the pool b gives it
TablePageIn(b, page_id) == TablePage_decode(PageBytesIn(b, page_id))

RidsOfPages ==
    {RecordId_new(page_id, slot_num) : page_id \in AllocatedPageIds,
                                       slot_num \in 0..(MaxInserts - 1)}

\* update_tuple_meta(meta, rid) from the current state: tuple_meta(rid)
\* returns meta afterwards, the tuple at rid is the same, and every page
\* is the page it was but for that meta; for a rid that holds no tuple the
\* call is an error and every page is as before.
UpdateTupleMetaFrame(meta, rid, post) ==
    IF rid.slot_num < num_tuples(TablePageIn(BPM, rid.page_id))
    THEN /\ post.ok
         /\ tuple_meta(post.bpm, rid).result = Some(meta)
         /\ full_tuple(post.bpm, rid).result.value.tuple
               = full_tuple(BPM, rid).result.value.tuple
         /\ \A page_id \in AllocatedPageIds :
               TablePageIn(post.bpm, page_id) =
                  IF page_id = rid.page_id
                  THEN [TablePageIn(BPM, page_id) EXCEPT !.tuples[rid.slot_num + 1].meta = meta]
                  ELSE TablePageIn(BPM, page_id)
    ELSE /\ ~post.ok
         /\ \A page_id \in AllocatedPageIds :
               TablePageIn(post.bpm, page_id) = TablePageIn(BPM, page_id)

\* C18: update_tuple_meta(meta, rid) makes tuple_meta(rid) return meta and
\* changes nothing else: the tuple at rid, the tuples and metas of all other
\* slots, and num_tuples and next_page_id of every page are unchanged.
C18_UpdateTupleMetaOnly ==
    \A meta \in Metas, rid \in RidsOfPages :
        UpdateTupleMetaFrame(meta, rid, update_tuple_meta(BPM, meta, rid))

\* A heap of two tuples where the meta of the second has been replaced and
\* the first still reads as inserted
C18_MetaUpdated ==
    /\ Len(inserted) = 2
    /\ inserted[1].rid.page_id = inserted[2].rid.page_id
    /\ full_tuple(BPM, inserted[1].rid).result
          = Some([meta |-> inserted[1].meta, tuple |-> inserted[1].tuple])
    /\ full_tuple(BPM, inserted[2].rid).result.some
    /\ full_tuple(BPM, inserted[2].rid).result.value.tuple = inserted[2].tuple
    /\ full_tuple(BPM, inserted[2].rid).result.value.meta # inserted[2].meta

-----------------------------------------------------------------------------
(* Claims about the B+-tree *)

\* The image of a page as the next fetch would see it: the frame's when the
\* page is resident, else the disk's
PageImage(page_id) ==
    IF page_id \in DOMAIN page_table THEN pool[page_table[page_id]].data
    ELSE IF page_id \in DOMAIN disk_manager.pages THEN disk_manager.pages[page_id]
    ELSE ZeroData

LastPageId == disk_manager.next_page_id - 1

\* The pages reachable from the root through child pointers
RECURSIVE Reachable(_, _)
Reachable(page_id, fuel) ==
    LET page == PageImage(page_id)
    IN  IF fuel = 0 \/ ~IsTreeImage(page) THEN {}
        ELSE IF page.kind = "leaf" THEN {page_id}
        ELSE {page_id} \cup UNION {Reachable(page.array[i].value, fuel - 1) :
                                      i \in DOMAIN page.array}

TreePages ==
    IF root_page_id = INVALID_PAGE_ID THEN {} ELSE Reachable(root_page_id, LastPageId)

\* The leftmost leaf: follow the first child from the root
RECURSIVE FirstLeaf(_, _)
FirstLeaf(page_id, fuel) ==
    LET page == PageImage(page_id)
    IN  IF fuel = 0 \/ ~IsTreeImage(page) THEN INVALID_PAGE_ID
        ELSE IF page.kind = "leaf" THEN page_id
        ELSE IF page.array = <<>> THEN INVALID_PAGE_ID
        ELSE FirstLeaf(page.array[1].value, fuel - 1)

\* The keys met walking the leaves along next_page_id
RECURSIVE ChainKeys(_, _)
ChainKeys(page_id, fuel) ==
    LET page == PageImage(page_id)
    IN  IF fuel = 0 \/ page_id = INVALID_PAGE_ID \/ ~IsTreeImage(page) THEN <<>>
        ELSE IF page.kind # "leaf" THEN <<>>
        ELSE [i \in DOMAIN page.array |-> page.array[i].key]
                 \o ChainKeys(page.next_page_id, fuel - 1)

LeafChainKeys ==
    IF root_page_id = INVALID_PAGE_ID THEN <<>>
    ELSE ChainKeys(FirstLeaf(root_page_id, LastPageId), LastPageId)

StrictlyAscending(s) == \A i \in 1..(Len(s) - 1) : s[i] < s[i + 1]

\* C4: get(k) right after insert(k, r) returns Some(r), and get(k) right
\* after delete(k) returns None.
C4_GetAfterInsertDelete ==
    /\ (tree_op.op = "insert" /\ tree_op.ok) =>
           get(BPM, root_page_id, tree_op.key).result = Some(tree_op.rid)
    /\ (tree_op.op = "delete" /\ tree_op.ok) =>
           get(BPM, root_page_id, tree_op.key).result = None

\* C4 for inserts of keys that are not stored
C4_GetAfterInsertDeleteDistinct == distinct_keys => C4_GetAfterInsertDelete

\* C7: the keys met walking the leaves from the leftmost leaf along
\* next_page_id are strictly ascending, when no insert repeated a stored key.
C7_LeafChainAscending == distinct_keys => StrictlyAscending(LeafChainKeys)

\* C8: every page of the tree other than the root holds between
\* ceil(max_size / 2) and max_size entries, and the root at most max_size.
C8_Balance ==
    \A page_id \in TreePages :
        LET page == PageImage(page_id)
        IN  /\ current_size(page) <= page.max_size
            /\ page_id # root_page_id =>
                   current_size(page) >= (page.max_size + 1) \div 2

\* Reached by test_index_delete: keys 1..11 are built and 3, 10 and 8 are
\* deleted; two internal pages have merged, the root has collapsed, and the
\* three leaves under the new root hold the eight keys left (the deletes
\* come in any order).
C8_AfterMergeAndCollapse ==
    /\ tree_op.op = "delete" /\ tree_op.ok /\ ops = 3
    /\ leaf_max_size = TEST_MAX_SIZE
    /\ root_page_id # INVALID_PAGE_ID
    /\ PageImage(root_page_id).kind = "internal"
    /\ current_size(PageImage(root_page_id)) = 3
    /\ Cardinality(TreePages) = 4
    /\ DOMAIN index_map = {1, 2, 4, 5, 6, 7, 9, 11}
    /\ index_map[11] = RecordId_new(11, 11)
    /\ LeafChainKeys = <<1, 2, 4, 5, 6, 7, 9, 11>>

\* C19: delete(k) for a key that is not stored (get(k) is None) returns Ok
\* and leaves the tree unchanged: the same root_page_id, every page with
\* the same entries and next_page_id, and the same get result for every key.
C19_DeleteAbsentKey ==
    [][(/\ tree_op'.op = "delete"
        /\ ops' = ops + 1
        /\ get(BPM, root_page_id, tree_op'.key).result = None) =>
          /\ tree_op'.ok
          /\ root_page_id' = root_page_id
          /\ \A page_id \in AllocatedPageIds :
                PageBytesIn(BPM', page_id) = PageBytesIn(BPM, page_id)
          /\ disk_manager'.next_page_id = disk_manager.next_page_id
          /\ \A key \in Keys :
                get(BPM', root_page_id', key).result = get(BPM, root_page_id, key).result]_vars

\* delete of a key above every built key, on a tree of several leaves
C19_AbsentKeyDeleted ==
    /\ tree_op.op = "delete" /\ tree_op.ok /\ ops = 1
    /\ DOMAIN index_map = 1..6
    /\ tree_op.key > 6
    /\ LeafChainKeys = <<1, 2, 3, 4, 5, 6>>
    /\ PageImage(root_page_id).kind = "internal"

-----------------------------------------------------------------------------
(* Claims about the index iterator *)

\* The record ids an iteration of the range must give: those of the stored
\* keys within both bounds, in ascending key order
InRange(start_bound, end_bound, key) ==
    /\ start_bound.kind = "Included" => key >= start_bound.value
    /\ start_bound.kind = "Excluded" => key > start_bound.value
    /\ end_bound.kind = "Included" => key <= end_bound.value
    /\ end_bound.kind = "Excluded" => key < end_bound.value

RECURSIVE RidsAscending(_)
RidsAscending(keys) ==
    IF keys = {} THEN <<>>
    ELSE LET k == CHOOSE x \in keys : \A y \in keys : x <= y
         IN  <<index_map[k]>> \o RidsAscending(keys \ {k})

TreeIterExpected ==
    RidsAscending({k \in DOMAIN index_map :
                      InRange(tree_iter.start_bound, tree_iter.end_bound, k)})

RECURSIVE Yielded(_)
Yielded(log) ==
    IF log = <<>> THEN <<>>
    ELSE IF Head(log).result.some THEN <<Head(log).result.value>> \o Yielded(Tail(log))
    ELSE Yielded(Tail(log))

IsPrefix(s, t) == Len(s) <= Len(t) /\ SubSeq(t, 1, Len(s)) = s

\* C15: over a tree built by inserts, the next() calls of a
\* TreeIndexIterator return exactly the record ids of the stored keys within
\* both bounds, ascending, each once: every call succeeds, what has been
\* yielded is always a prefix of that list, and it is the whole list once a
\* call has returned None.
C15_TreeIteratorRangeExact ==
    Iterating =>
        /\ \A i \in DOMAIN tree_iter_log : tree_iter_log[i].status = "Ok"
        /\ IsPrefix(Yielded(tree_iter_log), TreeIterExpected)
        /\ (\E i \in DOMAIN tree_iter_log : ~tree_iter_log[i].result.some) =>
              Yielded(tree_iter_log) = TreeIterExpected

-----------------------------------------------------------------------------
(* Claims about splits, borrows and merges.  The pages are read in the    *)
(* buffer pool before and after a call.                                    *)

\* The image of a page in the buffer pool b: the frame's when the page is
\* resident, else the disk's
TreeImageIn(b, page_id) ==
    IF page_id \in DOMAIN b.page_table THEN b.pool[b.page_table[page_id]].data
    ELSE IF page_id \in DOMAIN b.disk_manager.pages THEN b.disk_manager.pages[page_id]
    ELSE ZeroData

\* The pages reachable from page_id through child pointers
RECURSIVE ReachableIn(_, _, _)
ReachableIn(b, page_id, fuel) ==
    LET page == TreeImageIn(b, page_id)
    IN  IF fuel = 0 \/ ~IsTreeImage(page) THEN {}
        ELSE IF page.kind = "leaf" THEN {page_id}
        ELSE {page_id} \cup UNION {ReachableIn(b, page.array[i].value, fuel - 1) :
                                      i \in DOMAIN page.array}

TreePagesIn(b, root) ==
    IF root = INVALID_PAGE_ID THEN {}
    ELSE ReachableIn(b, root, b.disk_manager.next_page_id - 1)

InternalPagesIn(b, root) ==
    {p \in TreePagesIn(b, root) : TreeImageIn(b, p).kind = "internal"}

\* The keys stored in the leaves under page_id
SubtreeKeysIn(b, page_id) ==
    UNION {{TreeImageIn(b, p).array[i].key : i \in DOMAIN TreeImageIn(b, p).array} :
              p \in {x \in ReachableIn(b, page_id, b.disk_manager.next_page_id - 1) :
                        TreeImageIn(b, x).kind = "leaf"}}

MinOf(S) == CHOOSE x \in S : \A y \in S : x <= y

\* The keys under which page q is entered in the internal pages of the tree
EntryKeysIn(b, root, q) ==
    UNION {{TreeImageIn(b, p).array[i].key :
               i \in {j \in DOMAIN TreeImageIn(b, p).array :
                         TreeImageIn(b, p).array[j].value = q}} :
              p \in InternalPagesIn(b, root)}

\* A call of insert that returned Ok, and the pages it added to the tree
InsertStep == tree_op'.op = "insert" /\ tree_op'.ok /\ ops' = ops + 1

AddedTreePages ==
    TreePagesIn(BPM', root_page_id') \cap (AllocatedPageIds' \ AllocatedPageIds)

\* Page p of the pool b0 was split into p and its new right sibling q of
\* the pool b1: p held max_size entries and took one more; the lowest
\* floor((max_size + 1) / 2) of them stay in p and the rest are in q, in
\* order; a leaf q takes the place after p in the leaf chain
SplitOf(b0, b1, p, q) ==
    LET before == TreeImageIn(b0, p)
        left == TreeImageIn(b1, p)
        right == TreeImageIn(b1, q)
        whole == left.array \o right.array
        first == IF right.kind = "leaf" THEN 1 ELSE 2
    IN  /\ left.kind = right.kind
        /\ before.kind = right.kind
        /\ Len(whole) = right.max_size + 1
        /\ Len(before.array) = right.max_size
        /\ \E i \in DOMAIN whole : RemoveAt(whole, i) = before.array
        /\ Len(left.array) = (right.max_size + 1) \div 2
        /\ \A i \in first..(Len(whole) - 1) : whole[i].key <= whole[i + 1].key
        /\ right.kind = "leaf" =>
              /\ left.next_page_id = q
              /\ right.next_page_id = before.next_page_id

\* The sizes of the leaves along the leaf chain
RECURSIVE ChainSizesIn(_, _, _)
ChainSizesIn(b, page_id, fuel) ==
    LET page == TreeImageIn(b, page_id)
    IN  IF fuel = 0 \/ page_id = INVALID_PAGE_ID \/ ~IsTreeImage(page) THEN <<>>
        ELSE IF page.kind # "leaf" THEN <<>>
        ELSE <<current_size(page)>> \o ChainSizesIn(b, page.next_page_id, fuel - 1)

\* The tree of test_index_insert: a root of size 2 whose children, of sizes
\* 2 and 3, stand over five leaves of sizes 2, 2, 2, 2, 3
TestIndexInsertShape ==
    LET root == PageImage(root_page_id)
        child(i) == PageImage(root.array[i].value)
    IN  /\ root.kind = "internal" /\ current_size(root) = 2
        /\ child(1).kind = "internal" /\ current_size(child(1)) = 2
        /\ child(2).kind = "internal" /\ current_size(child(2)) = 3
        /\ \A i \in 1..2 : \A j \in DOMAIN child(i).array :
              PageImage(child(i).array[j].value).kind = "leaf"
        /\ ChainSizesIn(BPM, FirstLeaf(root_page_id, LastPageId), LastPageId)
               = <<2, 2, 2, 2, 3>>
        /\ LeafChainKeys = <<1, 2, 3, 4, 5, 6, 7, 8, 9, 10, 11>>

\* C24: a page added to the tree by an insert is the right half of a page
\* that held max_size + 1 entries: the lowest floor((max_size + 1) / 2)
\* entries stay in the original page and the others are in the new right
\* sibling, in order; and the keys 1..11 inserted in ascending order with
\* both maximum sizes 4 give the tree of test_index_insert.
C24_SplitPoint ==
    [][/\ InsertStep =>
            \A q \in AddedTreePages \ {root_page_id'} :
                \E p \in TreePagesIn(BPM, root_page_id) : SplitOf(BPM, BPM', p, q)
       /\ (/\ tree_op'.op = "insert" /\ ops' = 0
           /\ leaf_max_size' = TEST_MAX_SIZE
           /\ DOMAIN index_map' = 1..11) => TestIndexInsertShape']_vars

\* An insert has split the rightmost leaf of a tree of two leaves
C24_LeafSplitByInsert ==
    /\ tree_op.op = "insert" /\ tree_op.ok /\ ops = 1 /\ tree_op.key = 7
    /\ leaf_max_size = TEST_MAX_SIZE
    /\ DOMAIN index_map = 1..7
    /\ Cardinality(TreePages) = 4
    /\ ChainSizesIn(BPM, FirstLeaf(root_page_id, LastPageId), LastPageId) = <<2, 2, 3>>

\* The key the tree must hold for page q in its parent: the first key of a
\* leaf, the minimum leaf key under an internal page
SeparatorFor(b, q) ==
    IF TreeImageIn(b, q).kind = "leaf" THEN key_at(TreeImageIn(b, q), 0)
    ELSE MinOf(SubtreeKeysIn(b, q))

DeleteStep == tree_op'.op = "delete" /\ tree_op'.ok /\ ops' = ops + 1

\* The tree test_index_delete ends with: an internal root of size 3 over
\* three leaves of sizes 3, 2, 3 that hold the keys 1, 2, 4, 5, 6, 7, 9, 11
TestIndexDeleteShape ==
    LET root == PageImage(root_page_id)
    IN  /\ root.kind = "internal" /\ current_size(root) = 3
        /\ \A i \in DOMAIN root.array : PageImage(root.array[i].value).kind = "leaf"
        /\ ChainSizesIn(BPM, FirstLeaf(root_page_id, LastPageId), LastPageId) = <<3, 2, 3>>
        /\ LeafChainKeys = <<1, 2, 4, 5, 6, 7, 9, 11>>

\* C23, the run of test_index_delete: on the tree built from the keys 1..11
\* with both maximum sizes 4, once 3 and 10 are deleted, the delete of 8
\* leaves an internal root of size 3 over leaves of sizes 3, 2, 3 whose
\* chain yields 1, 2, 4, 5, 6, 7, 9, 11.
C23_TestIndexDelete ==
    [][(/\ DeleteStep /\ ops' = 3 /\ tree_op'.key = 8
        /\ leaf_max_size = TEST_MAX_SIZE
        /\ distinct_keys
        /\ DOMAIN index_map = (1..11) \ {3, 10}) => TestIndexDeleteShape']_vars

\* C23: each delete removes exactly its key from the leaf chain and keeps
\* every other key, in order (on trees whose inserts brought distinct
\* keys).
C23_DeleteRemovesExactlyItsKey ==
    [][(DeleteStep /\ distinct_keys) =>
          LeafChainKeys' = SelectSeq(LeafChainKeys, LAMBDA k : k # tree_op'.key)]_vars

\* The pairs of neighbouring children in the tree: entry index of the
\* parent holds the left page and entry index + 1 the right page, whose key
\* is the separator between the two
SiblingPairsIn(b, root) ==
    UNION {{[parent |-> p, index |-> i] : i \in 1..(current_size(TreeImageIn(b, p)) - 1)} :
              p \in InternalPagesIn(b, root)}

LeftOf(b, s) == TreeImageIn(b, s.parent).array[s.index].value
RightOf(b, s) == TreeImageIn(b, s.parent).array[s.index + 1].value
SeparatorOf(b, s) == TreeImageIn(b, s.parent).array[s.index + 1].key

\* Entry x of a page of this kind is the entry e: the same key and record
\* id in a leaf, the same child in an internal page
SameEntry(kind, x, e) == IF kind = "leaf" THEN x = e ELSE x.value = e.value

Holds(page, e) == \E j \in DOMAIN page.array : SameEntry(page.kind, page.array[j], e)

\* Both pages of the pair s are pages of one kind before and after the call
SameKindPair(b0, b1, s) ==
    /\ IsTreeImage(TreeImageIn(b0, LeftOf(b1, s)))
    /\ IsTreeImage(TreeImageIn(b0, RightOf(b1, s)))
    /\ IsTreeImage(TreeImageIn(b1, LeftOf(b1, s)))
    /\ IsTreeImage(TreeImageIn(b1, RightOf(b1, s)))
    /\ \A x \in {TreeImageIn(b0, LeftOf(b1, s)), TreeImageIn(b0, RightOf(b1, s)),
                 TreeImageIn(b1, LeftOf(b1, s))} :
          x.kind = TreeImageIn(b1, RightOf(b1, s)).kind

\* Between the pools b0 and b1 the right page of the pair s has borrowed
\* the maximum entry of its left sibling: the left page lost its last
\* entry, which the right page did not hold and now holds
BorrowedFromLeft(b0, b1, s) ==
    /\ SameKindPair(b0, b1, s)
    /\ TreeImageIn(b0, LeftOf(b1, s)).array # <<>>
    /\ TreeImageIn(b1, LeftOf(b1, s)).array = Front(TreeImageIn(b0, LeftOf(b1, s)).array)
    /\ Holds(TreeImageIn(b1, RightOf(b1, s)), Last(TreeImageIn(b0, LeftOf(b1, s)).array))
    /\ ~Holds(TreeImageIn(b0, RightOf(b1, s)), Last(TreeImageIn(b0, LeftOf(b1, s)).array))

\* Between the pools b0 and b1 the left page of the pair s has borrowed the
\* minimum entry of its right sibling
BorrowedFromRight(b0, b1, s) ==
    /\ SameKindPair(b0, b1, s)
    /\ TreeImageIn(b0, RightOf(b1, s)).array # <<>>
    /\ TreeImageIn(b1, RightOf(b1, s)).array = Tail(TreeImageIn(b0, RightOf(b1, s)).array)
    /\ Holds(TreeImageIn(b1, LeftOf(b1, s)), Head(TreeImageIn(b0, RightOf(b1, s)).array))
    /\ ~Holds(TreeImageIn(b0, LeftOf(b1, s)), Head(TreeImageIn(b0, RightOf(b1, s)).array))

\* The minimum key of the page: its first key in a leaf, the minimum leaf
\* key under child in an internal page
NewMinimumIn(b, page, child) ==
    IF page.kind = "leaf" THEN key_at(page, 0)
    ELSE IF SubtreeKeysIn(b, child) = {} THEN EmptyKey
    ELSE MinOf(SubtreeKeysIn(b, child))

\* C26: when a page has borrowed from its left sibling during a delete, the
\* left sibling's maximum entry has become the first entry of the page, and
\* the parent's separator between the two is the new minimum key of the
\* page: its first key (leaf) or the minimum leaf key under the moved child
\* (internal).
C26_BorrowFromLeft ==
    [][(DeleteStep /\ distinct_keys) =>
          \A s \in SiblingPairsIn(BPM', root_page_id') :
              BorrowedFromLeft(BPM, BPM', s) =>
                  LET page == TreeImageIn(BPM', RightOf(BPM', s))
                      moved == Last(TreeImageIn(BPM, LeftOf(BPM', s)).array)
                  IN  /\ SameEntry(page.kind, kv_at(page, 0), moved)
                      /\ SeparatorOf(BPM', s) = NewMinimumIn(BPM', page, moved.value)]_vars

\* C27: when a page has borrowed from its right sibling during a delete,
\* the right sibling's minimum entry has become the last entry of the page,
\* and the parent's separator between the two is the minimum key that
\* remains under the right sibling.
C27_BorrowFromRight ==
    [][(DeleteStep /\ distinct_keys) =>
          \A s \in SiblingPairsIn(BPM', root_page_id') :
              BorrowedFromRight(BPM, BPM', s) =>
                  LET page == TreeImageIn(BPM', LeftOf(BPM', s))
                      sibling == TreeImageIn(BPM', RightOf(BPM', s))
                      moved == Head(TreeImageIn(BPM, RightOf(BPM', s)).array)
                  IN  /\ SameEntry(page.kind, Last(page.array), moved)
                      /\ SeparatorOf(BPM', s)
                             = NewMinimumIn(BPM', sibling, RightOf(BPM', s))]_vars

\* A leaf that a merge has taken out of the leaf chain between the pools
\* b0 and b1: the leaf before it now points to the leaf after it
LeftOutOfChain(b0, b1, root, q) ==
    \E p \in TreePagesIn(b0, root) \ {q} :
        /\ TreeImageIn(b0, p).kind = "leaf"
        /\ TreeImageIn(b0, q).kind = "leaf"
        /\ IsTreeImage(TreeImageIn(b1, p))
        /\ TreeImageIn(b1, p).kind = "leaf"
        /\ TreeImageIn(b0, p).next_page_id = q
        /\ TreeImageIn(b1, p).next_page_id = TreeImageIn(b0, q).next_page_id

\* The pages a delete has merged into their left siblings: pages of the
\* tree other than the root that the call took out of the tree or out of
\* the leaf chain
AbsorbedPages ==
    {q \in TreePagesIn(BPM, root_page_id) \ {root_page_id} :
        \/ q \notin TreePagesIn(BPM', root_page_id')
        \/ LeftOutOfChain(BPM, BPM', root_page_id, q)}

\* The page is no longer in the buffer pool b1 and the frame it had in b0
\* is on the free list
PageDeletedIn(b0, b1, q) ==
    /\ q \notin DOMAIN b1.page_table
    /\ q \in DOMAIN b0.page_table => b0.page_table[q] \in SeqToSet(b1.free_list)
    /\ q \in b1.disk_manager.deallocated

\* C28: after a delete that merged two siblings has returned, the absorbed
\* right page is not in the page table, its frame is on the free list, its
\* page id is deallocated in the DiskManager, and no page of the tree has
\* an entry that points to it.
C28_AbsorbedPageDeleted ==
    [][DeleteStep =>
          \A q \in AbsorbedPages :
              /\ PageDeletedIn(BPM, BPM', q)
              /\ EntryKeysIn(BPM', root_page_id', q) = {}]_vars

\* C28 for the merges that absorb the right sibling of the page that
\* underflowed: the absorbed page is not the leaf the key was removed from
C28_AbsorbedSiblingDeleted ==
    [][DeleteStep =>
          \A q \in AbsorbedPages :
              (\A i \in DOMAIN TreeImageIn(BPM, q).array :
                  TreeImageIn(BPM, q).array[i].key # tree_op'.key) =>
                      /\ PageDeletedIn(BPM, BPM', q)
                      /\ EntryKeysIn(BPM', root_page_id', q) = {}]_vars

\* C29: when a delete changes root_page_id, the new root is the one child
\* the merge left to the old root, and the old root is not in the page
\* table and its page id is deallocated; no delete leaves an internal root
\* with exactly one child.
C29_RootCollapse ==
    [][DeleteStep =>
          /\ root_page_id' # root_page_id =>
                /\ TreeImageIn(BPM, root_page_id).kind = "internal"
                /\ \E i \in DOMAIN TreeImageIn(BPM, root_page_id).array :
                      TreeImageIn(BPM, root_page_id).array[i].value = root_page_id'
                /\ root_page_id \notin DOMAIN page_table'
                /\ root_page_id \in disk_manager'.deallocated
          /\ root_page_id' # INVALID_PAGE_ID =>
                ~(/\ TreeImageIn(BPM', root_page_id').kind = "internal"
                  /\ current_size(TreeImageIn(BPM', root_page_id')) = 1)]_vars

\* C29 without the deletion of the old root: the published root
C29_RootPromoted ==
    [][DeleteStep =>
          /\ root_page_id' # root_page_id =>
                /\ TreeImageIn(BPM, root_page_id).kind = "internal"
                /\ \E i \in DOMAIN TreeImageIn(BPM, root_page_id).array :
                      TreeImageIn(BPM, root_page_id).array[i].value = root_page_id'
          /\ root_page_id' # INVALID_PAGE_ID =>
                ~(/\ TreeImageIn(BPM', root_page_id').kind = "internal"
                  /\ current_size(TreeImageIn(BPM', root_page_id')) = 1)]_vars

-----------------------------------------------------------------------------
(* Claims about insert_tuple on a full last page *)

\* C25: when insert_tuple returns Ok for a tuple that does not fit the last
\* page, which holds at least one tuple, then after the call the old last
\* page holds its previous tuples and its next_page_id is the id of the
\* newly allocated page; the new page holds the inserted tuple at slot 0
\* and has next_page_id = INVALID_PAGE_ID; last_page_id is the new page id;
\* and the returned RecordId is (new page id, 0).
C25_InsertIntoNewPage ==
    [][(/\ Len(inserted') = Len(inserted) + 1
        /\ num_tuples(TablePageIn(BPM, last_page_id)) > 0
        /\ ~next_tuple_offset_ok(TablePageIn(BPM, last_page_id), Last(inserted').tuple)) =>
          LET new_page_id == disk_manager.next_page_id
              old_before == TablePageIn(BPM, last_page_id)
              old_after == TablePageIn(BPM', last_page_id)
              new_after == TablePageIn(BPM', new_page_id)
          IN  /\ disk_manager'.next_page_id = new_page_id + 1
              /\ old_after.tuples = old_before.tuples
              /\ old_after.next_page_id = new_page_id
              /\ new_after.tuples = <<[meta |-> Last(inserted').meta,
                                       tuple |-> Last(inserted').tuple]>>
              /\ new_after.next_page_id = INVALID_PAGE_ID
              /\ last_page_id' = new_page_id
              /\ Last(inserted').rid = RecordId_new(new_page_id, 0)]_vars

-----------------------------------------------------------------------------
(* Claims about concurrent callers of the buffer pool *)

\* C21: while threads call new_page and fetch_page concurrently, two live
\* handles for different page ids never refer to the same frame, and no step
\* installs another page in the frame of a handle that stays alive.
C21_FrameAllocationSerialized ==
    [][/\ \A h1, h2 \in BagToSet(handles') :
              h1.frame = h2.frame => h1.page_id = h2.page_id
       /\ \A h \in BagToSet(handles) :
              (/\ CopiesIn(h, handles') >= CopiesIn(h, handles)
               /\ pool'[h.frame].page_id # pool[h.frame].page_id) =>
                  pool'[h.frame].page_id = h.page_id]_vars

\* C22: when the fetch_page(p) calls of two threads both found p not
\* resident and both returned a handle, one after the other with no other
\* call in progress and no other handle for p alive, then exactly one frame
\* holds p, the page table maps p to it, both handles refer to it, and its
\* pin_count is 2.
C22_ConcurrentFetchSamePage ==
    [][\A t \in Threads :
          (/\ threads[t].pc = "set_evictable" /\ threads'[t].pc = "idle"
           /\ threads[t].op = "fetch_page"
           /\ \A u \in Threads \ {t} : threads[u].pc = "idle"
           /\ last_op.op = "fetch_page" /\ last_op.ok
           /\ last_op.thread # t
           /\ last_op.path = "miss" /\ last_op.page_id = threads[t].page_id
           /\ BagToSet(handles) = {Handle(last_op.frame_id, last_op.page_id)}
           /\ BagCardinality(handles) = 1) =>
              /\ threads[t].page_id \in DOMAIN page_table'
              /\ {f \in DOMAIN pool' : pool'[f].page_id = threads[t].page_id}
                     = {page_table'[threads[t].page_id]}
              /\ threads[t].frame_id = page_table'[threads[t].page_id]
              /\ last_op.frame_id = page_table'[threads[t].page_id]
              /\ pool'[threads[t].frame_id].pin_count = 2]_vars

-----------------------------------------------------------------------------
(* Claims about a fetch_page whose disk read fails *)

EvictionCandidates(r) == {f \in DOMAIN r.evictable : r.evictable[f]}

\* C36: a fetch_page(pid) miss whose DiskManager read fails leaves pid out of
\* the page table and leaves the frame taken for it on the free list or
\* among the eviction candidates; and every fetch_page(pid) that returns a
\* handle returns one to a frame holding pid.
C36_FailedFetchLeavesPoolAsItWas ==
    [][/\ (/\ last_op'.op = "fetch_page" /\ ~last_op'.ok
           /\ read_failures' = read_failures + 1) =>
              /\ last_op'.page_id \notin DOMAIN page_table'
              /\ SeqToSet(free_list) \cup EvictionCandidates(replacer)
                    \subseteq SeqToSet(free_list') \cup EvictionCandidates(replacer')
       /\ (/\ last_op'.op = "fetch_page" /\ last_op'.ok
           /\ BagCardinality(handles') = BagCardinality(handles) + 1) =>
              \E h \in BagToSet(handles') :
                 /\ CopiesIn(h, handles') = CopiesIn(h, handles) + 1
                 /\ h.page_id = last_op'.page_id
                 /\ pool'[h.frame].page_id = h.page_id]_vars

-----------------------------------------------------------------------------
(* Claims about the order in which frames are allocated *)

\* The step is a new_page or a fetch_page miss: it calls allocate_frame
AllocatingStep ==
    \/ last_op'.op = "new_page"
    \/ last_op'.op = "fetch_page" /\ last_op'.page_id \notin DOMAIN page_table

\* C32: a call that allocates a frame while the free list is non-empty takes
\* the front of the free list and evicts no resident page; with an empty
\* free list it takes the replacer's victim, and fails, changing nothing,
\* when there is none; a delete_page that frees a frame appends it at the
\* back of the free list.
C32_FrameAllocationOrder ==
    [][/\ (AllocatingStep /\ free_list # <<>>) =>
              /\ free_list' = Tail(free_list)
              /\ replacer'.evictable = replacer.evictable
              /\ \A p \in DOMAIN page_table :
                    p \in DOMAIN page_table' /\ page_table'[p] = page_table[p]
              /\ last_op'.page_id \in DOMAIN page_table'
              /\ page_table'[last_op'.page_id] = Head(free_list)
       /\ (AllocatingStep /\ free_list = <<>>) =>
              /\ free_list' = <<>>
              /\ IF EvictionCandidates(replacer) = {}
                 THEN ~last_op'.ok /\ bpvars' = bpvars
                 ELSE /\ last_op'.page_id \in DOMAIN page_table'
                      /\ page_table'[last_op'.page_id] = evict_victim(replacer)
                      /\ evict_victim(replacer) \in EvictionCandidates(replacer)
       /\ (/\ last_op'.op = "delete_page" /\ last_op'.ok
           /\ last_op'.page_id \in DOMAIN page_table) =>
              free_list' = Append(free_list, page_table[last_op'.page_id])]_vars

\* new_page has taken the front of a free list whose back is a frame that
\* delete_page freed
C32_FreedFrameTakenLast ==
    /\ last_op.op = "new_page" /\ last_op.ok
    /\ 1 \in disk_manager.deallocated
    /\ free_list = <<0>>
    /\ last_op.page_id \in DOMAIN page_table
    /\ page_table[last_op.page_id] = 1

-----------------------------------------------------------------------------
(* Claims about threads waiting for each other *)

\* Thread t holds the page-table guard of the entry of page p and waits for
\* the replacer lock, which thread u holds while it waits to remove the
\* entry of p from the page table
WaitForEachOther(t, u) ==
    /\ threads[t].pc = "hit_set_evictable"
    /\ threads[u].pc = "page_table_remove"
    /\ threads[u].evicted_page_id = threads[t].page_id
    /\ "page_table" \in Guards(t)
    /\ "replacer" \in Guards(u)

\* C37: no state is reached in which two threads wait forever on each
\* other's locks: a fetch_page hit on page p and an allocate_frame that
\* evicts p's frame never block each other.
C37_NoDeadlock ==
    \A t, u \in Threads : t # u => ~WaitForEachOther(t, u)

-----------------------------------------------------------------------------
(* Claims about the shape of the tree after any calls *)

\* C38: for every internal page of the tree and every entry after the first,
\* the keys stored under the child before it are below the entry's key and
\* the keys stored under its own child are at or above it; and the descent
\* for every key stored in a leaf of the tree finds it.
C38_SeparatorInvariant ==
    distinct_keys =>
       /\ \A p \in InternalPagesIn(BPM, root_page_id) :
             \A i \in 2..Len(PageImage(p).array) :
                /\ \A k \in SubtreeKeysIn(BPM, PageImage(p).array[i - 1].value) :
                      k < PageImage(p).array[i].key
                /\ \A k \in SubtreeKeysIn(BPM, PageImage(p).array[i].value) :
                      k >= PageImage(p).array[i].key
       /\ root_page_id # INVALID_PAGE_ID =>
             \A k \in SubtreeKeysIn(BPM, root_page_id) :
                get(BPM, root_page_id, k).result # None

\* C35: with distinct keys inserted, get(k) returns Some(r) for every key k
\* inserted with record id r and not deleted since, and None for every
\* other key.
C35_RefinesMap ==
    distinct_keys =>
       \A k \in Keys :
          get(BPM, root_page_id, k).result
              = IF k \in DOMAIN index_map THEN Some(index_map[k]) ELSE None

\* The leaves under page_id, from left to right
RECURSIVE LeavesInOrder(_, _)
RECURSIVE LeavesUnder(_, _)
LeavesUnder(array, fuel) ==
    IF array = <<>> THEN <<>>
    ELSE LeavesInOrder(Head(array).value, fuel) \o LeavesUnder(Tail(array), fuel)

LeavesInOrder(page_id, fuel) ==
    IF fuel = 0 \/ ~IsTreeImage(PageImage(page_id)) THEN <<>>
    ELSE IF PageImage(page_id).kind = "leaf" THEN <<page_id>>
    ELSE LeavesUnder(PageImage(page_id).array, fuel - 1)

\* The page ids met walking the leaves along next_page_id
RECURSIVE ChainPages(_, _)
ChainPages(page_id, fuel) ==
    IF fuel = 0 \/ page_id = INVALID_PAGE_ID \/ ~IsTreeImage(PageImage(page_id)) THEN <<>>
    ELSE IF PageImage(page_id).kind # "leaf" THEN <<>>
    ELSE <<page_id>> \o ChainPages(PageImage(page_id).next_page_id, fuel - 1)

\* C31: following next_page_id from the leftmost leaf visits exactly the
\* leaves reachable from the root, each once, from left to right, and the
\* rightmost leaf has next_page_id = INVALID_PAGE_ID.
C31_LeafChain ==
    root_page_id # INVALID_PAGE_ID =>
       /\ ChainPages(FirstLeaf(root_page_id, LastPageId), LastPageId + 1)
             = LeavesInOrder(root_page_id, LastPageId)
       /\ LeavesInOrder(root_page_id, LastPageId) # <<>>
       /\ PageImage(Last(LeavesInOrder(root_page_id, LastPageId))).next_page_id
             = INVALID_PAGE_ID
       /\ \A i, j \in DOMAIN LeavesInOrder(root_page_id, LastPageId) :
             LeavesInOrder(root_page_id, LastPageId)[i]
                 = LeavesInOrder(root_page_id, LastPageId)[j] => i = j

\* The distances from page_id, at distance depth from the root, to the
\* leaves under it
RECURSIVE LeafDepths(_, _, _)
LeafDepths(page_id, depth, fuel) ==
    IF fuel = 0 \/ ~IsTreeImage(PageImage(page_id)) THEN {-1}
    ELSE IF PageImage(page_id).kind = "leaf" THEN {depth}
    ELSE UNION {LeafDepths(PageImage(page_id).array[i].value, depth + 1, fuel - 1) :
                   i \in DOMAIN PageImage(page_id).array}

\* The entries of the internal pages of the tree that point to page q
ParentEntries(q) ==
    UNION {{<<p, i>> : i \in {j \in DOMAIN PageImage(p).array :
                                  PageImage(p).array[j].value = q}} :
              p \in InternalPagesIn(BPM, root_page_id)}

\* C40: every leaf is at the same distance from the root, the children of an
\* internal page are all leaves or all internal pages, and every child
\* pointer refers to a live page that is the child of exactly one parent.
C40_UniformDepth ==
    root_page_id # INVALID_PAGE_ID =>
       /\ Cardinality(LeafDepths(root_page_id, 0, LastPageId)) = 1
       /\ -1 \notin LeafDepths(root_page_id, 0, LastPageId)
       /\ \A p \in InternalPagesIn(BPM, root_page_id) :
             \A i, j \in DOMAIN PageImage(p).array :
                /\ IsTreeImage(PageImage(PageImage(p).array[i].value))
                /\ PageImage(PageImage(p).array[i].value).kind
                      = PageImage(PageImage(p).array[j].value).kind
                /\ PageImage(p).array[i].value \in AllocatedPageIds
                /\ PageImage(p).array[i].value \notin disk_manager.deallocated
                /\ Cardinality(ParentEntries(PageImage(p).array[i].value)) = 1
       /\ ParentEntries(root_page_id) = {}

\* A delete has merged pages of a tree whose leaves are two levels below
\* the root, and the tree has kept its depth
C40_MergedAtDepthTwo ==
    /\ tree_op.op = "delete" /\ tree_op.ok /\ ops = 1
    /\ LeafDepths(root_page_id, 0, LastPageId) = {2}
    /\ disk_manager.deallocated # {}

-----------------------------------------------------------------------------
(* Claims about an emptied tree.  The index is built, every key is        *)
(* deleted from it, and it is then iterated or inserted into.             *)

EmptiedKeys == 1..EmptiedBuild

\* The caller deletes keys that are stored, and inserts once the index has
\* been emptied
NextTreeEmptied ==
    \/ \E n \in EmptiedKeys : BuildIndex(n)
    \/ \E key \in EmptiedKeys :
          /\ ~Iterating /\ ops < EmptiedOps /\ key \in DOMAIN index_map
          /\ Delete(key)
    \/ \E key \in EmptiedKeys :
          /\ ~Iterating /\ ops < EmptiedOps /\ tree_op.op = "delete"
          /\ index_map = <<>>
          /\ Insert(key)
    \/ \E start_bound \in TreeBounds, end_bound \in TreeBounds :
          TreeIterNew(start_bound, end_bound)
    \/ TreeIterNext

SpecTreeEmptied == InitTree /\ [][NextTreeEmptied]_vars

\* Every key of the index has been deleted, and nothing was inserted since
Emptied == index_map = <<>> /\ tree_op.op \in {"delete", "iter_new", "iter_next"}

\* C39: emptying the tree is safe.  Once every inserted key has been
\* deleted, get returns None for every key, every next() call of a
\* TreeIndexIterator over any range returns Ok(None) (no panic, no read past
\* the end of a leaf), and an insert(k, r) that follows makes get(k) return
\* Some(r).
C39_EmptyingIsSafe ==
    /\ Emptied =>
          /\ \A key \in EmptiedKeys : get(BPM, root_page_id, key).result = None
          /\ \A i \in DOMAIN tree_iter_log :
                tree_iter_log[i] = [status |-> "Ok", result |-> None]
    /\ (tree_op.op = "insert" /\ ops > 0 /\ ~Iterating) =>
          /\ tree_op.ok
          /\ get(BPM, root_page_id, tree_op.key).result = Some(tree_op.rid)

-----------------------------------------------------------------------------
(* Claims about calls that fail.  The index lives in a pool of few        *)
(* frames, so that a call can find every frame pinned by its own handles. *)

SmallTreeKeys == 1..SmallTreeMaxKey

\* BPlusTreeIndex::new over a fresh pool of SmallTreeFrames frames
InitTreeSmall ==
    /\ InitBPM(BufferPoolManager_new(SmallTreeFrames))
    /\ root_page_id = INVALID_PAGE_ID
    /\ leaf_max_size \in MaxSizes
    /\ internal_max_size = leaf_max_size
    /\ index_map = <<>>
    /\ distinct_keys = TRUE
    /\ ops = 0
    /\ tree_op = TreeOp("new", EmptyKey, INVALID_RID, TRUE, TRUE)
    /\ tree_iter = TreeIndexIterator_new(Unbounded, Unbounded)
    /\ tree_iter_log = <<>>
    /\ InitNoCaller
    /\ InitNoHeap

NextTreeSmall ==
    \/ \E n \in SmallTreeKeys : BuildIndex(n)
    \/ \E key \in SmallTreeKeys :
          ops < SmallTreeOps /\ key \notin DOMAIN index_map /\ Insert(key)
    \/ \E key \in SmallTreeKeys : ops < SmallTreeOps /\ Delete(key)

SpecTreeSmall == InitTreeSmall /\ [][NextTreeSmall]_vars

\* What get returns for key
StoredRid(key) == get(BPM, root_page_id, key).result

\* The leaf chain holds exactly the keys under the root
ChainMatchesTree ==
    root_page_id # INVALID_PAGE_ID =>
        SeqToSet(ChainKeys(FirstLeaf(root_page_id, LastPageId), LastPageId + 1))
            = SubtreeKeysIn(BPM, root_page_id)

\* C34: an insert that returns an error because the buffer pool cannot
\* supply a frame leaves the index consistent: every key that get returned
\* before the call is returned with the same record id after it, and the
\* leaf chain still holds exactly the keys reachable from the root.
C34_FailedInsertKeepsIndex ==
    [][(tree_op'.op = "insert" /\ ~tree_op'.ok /\ ops' = ops + 1) =>
          /\ \A key \in SmallTreeKeys :
                StoredRid(key).some => StoredRid(key)' = StoredRid(key)
          /\ ChainMatchesTree => ChainMatchesTree']_vars

\* The disk starts or stops failing its reads
IoError(io_error) ==
    /\ disk_manager.io_error # io_error
    /\ disk_manager' = [disk_manager EXCEPT !.io_error = io_error]
    /\ tree_op' = TreeOp("io_error", EmptyKey, INVALID_RID, TRUE, TRUE)
    /\ UNCHANGED <<pool, page_table, free_list, replacer, root_page_id, leaf_max_size,
                   internal_max_size, index_map, distinct_keys, ops, tree_iter,
                   tree_iter_log, callervars, heapvars>>

\* The index in the small pool, over a disk whose reads can fail; the caller
\* stops at the first call that returns an error
NextTreeFaulty ==
    \/ \E n \in SmallTreeKeys : BuildIndex(n)
    \/ \E key \in SmallTreeKeys :
          /\ tree_op.ok /\ ops < SmallTreeOps /\ key \notin DOMAIN index_map
          /\ Insert(key)
    \/ \E key \in SmallTreeKeys : tree_op.ok /\ ops < SmallTreeOps /\ Delete(key)
    \/ \E io_error \in BOOLEAN : tree_op.ok /\ IoError(io_error)

SpecTreeFaulty == InitTreeSmall /\ [][NextTreeFaulty]_vars

\* No frame of the buffer pool b that holds a page is pinned, and each is
\* evictable
Unpinned(b) ==
    \A page_id \in DOMAIN b.page_table :
        /\ b.pool[b.page_table[page_id]].pin_count = 0
        /\ b.replacer.evictable[b.page_table[page_id]]

\* C33: handles do not leak.  The caller holds no handle, so after every
\* call of the table heap or of the index, with success or with an error,
\* and after a get of any key, every mapped frame has pin_count 0 and is
\* evictable.
C33_HandlesDoNotLeak ==
    /\ Unpinned(BPM)
    /\ \A key \in SmallTreeKeys : Unpinned(get(BPM, root_page_id, key).bpm)

====
